---- MODULE Spec2Model ----
(***************************************************************************)
(* A model of the translation orchestration engine of the EN->AR dataset   *)
(* translation pipeline: the sliding-window RateLimiter                    *)
(* (core/rate_limiter.py), the quality validator and post-processing       *)
(* (core/postprocessing.py) and the retry/fallback engine                  *)
(* TranslationPipeline.translate_with_retry (core/pipeline.py).            *)
(*                                                                         *)
(* Specifications:                                                         *)
(*   Spec         the single-threaded pipeline calling translate_with_retry*)
(*                cell after cell, each attempt going through the limiter; *)
(*   SpecLimiter  several threads calling acquire() / get_wait_time() on   *)
(*                one RateLimiter instance;                                *)
(*   SpecLimiterFair  the same threads, every one of them going on when it *)
(*                can;                                                     *)
(*   SpecDataset  runs of translate_dataset over one dataset and one       *)
(*                checkpoint directory, with checkpoints and resume;       *)
(*   SpecResume   _load_checkpoint on a directory left by earlier runs;    *)
(*   SpecStats    the statistics of runs in which any cell can fail;       *)
(*   SpecValidator  validate_translation applied to bounded arguments, and *)
(*                what becomes of a valid translation.                     *)
(*                                                                         *)
(* Time is the value time.time() returns, in seconds.  It never goes back, *)
(* and two reads may return the same value (the clock's resolution).       *)
(* time.sleep(s) returns once the clock has advanced by at least s.        *)
(***************************************************************************)
EXTENDS Integers, Sequences, FiniteSets, TLC

VARIABLES
    \* ---- RateLimiter (core/rate_limiter.py) ----
    rpm,          \* self.rpm; 0 stands for "no limiter" (pipeline.rate_limiter is None)
    timestamps,   \* self.timestamps: the deque, oldest first
    now,          \* the clock: what time.time() returns
    \* ---- history kept for stating the claims (not program state) ----
    tsFor,        \* for each entry of timestamps, on whose behalf it was recorded
    admitted,     \* SpecLimiter: every timestamp ever recorded, in order
    \* ---- TranslationPipeline (core/pipeline.py) ----
    primary_api,      \* self.primary_api
    enable_fallback,  \* self.enable_fallback
    normalize_terms,  \* self.normalize_provider_terms
    pc,           \* where translate_with_retry stands
    text,         \* the argument text
    processed_text,   \* the local processed_text
    sent,         \* history: the text given to the last provider call
    max_retries,  \* the argument max_retries
    apiIdx,       \* position in the list apis (1-based)
    attempt,      \* the loop variable attempt
    wakeAt,       \* clock value at which the pending time.sleep returns
    resp,         \* the last provider result
    result,       \* the last returned tuple (translation, api_used, error)
    log,          \* events of the current call: acquire / call / sleep
    cellsDone,    \* number of translate_with_retry calls that returned
    \* ---- threads sharing one limiter (SpecLimiter) ----
    tpc,          \* per thread: where it stands
    lock,         \* self.lock: the holder, or NoThread
    twake,        \* per thread: clock value at which its time.sleep returns (0: not asleep)
    lastOp,       \* history: the limiter call that last ran its body, who made it, how
                  \* many entries it evicted, and its get_wait_time value or sleep_time
    \* ---- translate_dataset and the checkpoints (core/pipeline.py) ----
    df,                      \* the input dataset
    columns_to_translate,    \* self.columns_to_translate
    preserve_all_columns,    \* self.preserve_all_columns
    resume_from_checkpoint,  \* the argument resume_from_checkpoint
    checkpoint_name,         \* the argument checkpoint_name
    result_df,               \* the local result_df, returned at the end
    stats,                   \* self.stats
    checkpoint_dir,          \* the files of self.checkpoint_dir, by name
    dpc,                     \* where translate_dataset stands
    idx,                     \* the loop variable idx
    colIdx,                  \* position of the loop variable col in columns_to_translate
    cur,                     \* the tuple translate_with_retry returned for the current cell
    \* ---- history of the runs (not program state) ----
    runs,         \* number of runs started
    calls,        \* this run: the cells handed to translate_with_retry, in order
    saves,        \* this run: every completed _save_checkpoint, row count and file written
    loaded,       \* this run: what _load_checkpoint found
    troubled,     \* cells whose primary provider failed, over all runs
    \* ---- validate_translation (core/postprocessing.py) ----
    validation    \* one call: the arguments original and translated, and once it
                  \* has returned, the returned is_valid and checks

limVars == <<rpm, timestamps, now, tsFor, admitted>>
cfgVars == <<primary_api, enable_fallback, normalize_terms>>
engVars == <<cfgVars, pc, text, processed_text, sent, max_retries, apiIdx, attempt,
             wakeAt, resp, result, log, cellsDone>>
thrVars == <<tpc, lock, twake, lastOp>>
dsVars == <<df, columns_to_translate, preserve_all_columns, resume_from_checkpoint,
            checkpoint_name, result_df, stats, checkpoint_dir, dpc, idx, colIdx, cur,
            runs, calls, saves, loaded, troubled>>
vars == <<limVars, engVars, thrVars, dsVars, validation>>

----------------------------------------------------------------------------
(* Bounds of the model *)

MaxRpm == 2        \* limiters of 1..MaxRpm requests per minute
TimeStep == 20     \* seconds the clock advances in one Tick
MaxTime == 100     \* the clock stops advancing here
MaxCells == 2      \* calls of translate_with_retry in one run
MaxAdmit == 4      \* SpecLimiter: acquire() calls in one run
NumThreads == 2    \* SpecLimiter: threads sharing the limiter
MaxRows == 4       \* SpecDataset: rows of the input dataset
CHECKPOINT_INTERVAL == 2   \* config.py has 50; the runs of the model are scaled down
MaxRuns == 2       \* SpecDataset: runs over the same checkpoint directory
MaxFailed == 1     \* SpecDataset: cells, over all runs, whose primary provider fails
MaxCheckpoints == 6    \* SpecResume: checkpoints an earlier run can have left
StatsRows == 2     \* SpecStats: rows of the input dataset
MaxLen == 4        \* SpecValidator: characters of a translation
MaxOriginal == 11  \* SpecValidator: characters of an original

(* Program constants *)

WINDOW == 60               \* the literal 60 of rate_limiter.py
MAX_RETRIES == 3
BACKOFF_MULTIPLIER == 2

None == "None"             \* Python's None
NoThread == 0
Threads == 1..NumThreads

Max(a, b) == IF a >= b THEN a ELSE b
RECURSIVE Pow(_, _)
Pow(b, e) == IF e = 0 THEN 1 ELSE b * Pow(b, e - 1)

----------------------------------------------------------------------------
(* Texts.  A text is a sequence of characters; a character is one of the   *)
(* classes the validator and the post-processing tell apart:               *)
(*   "lat"   a Latin letter or other visible non-Arabic character          *)
(*   "sp"    a blank: a space or a tab                                     *)
(*   "nl"    a newline                                                     *)
(*   "ar"    an Arabic-block character other than an Alef form             *)
(*   "alef"  the bare Alef U+0627                                          *)
(*   "alefH" an Alef form with hamza or madda (U+0623, U+0625, U+0622)     *)
(*   "rep"   the replacement character U+FFFD                              *)
(*   "mojA", "mojB"  two characters that, adjacent in this order, form one *)
(*           of the mis-decode signatures (such as U+00C3 U+00A9)          *)
(*   "ctl"   a control character that clean_text removes                   *)
(*   "term"  a provider term of PROVIDER_TERMS standing as a word (such as *)
(*           ChatGPT), written as one symbol                               *)
(*   "generic"  the generic wording a provider term is replaced by         *)

Chars ==
    {"lat", "sp", "nl", "ar", "alef", "alefH", "rep", "mojA", "mojB", "ctl", "term",
     "generic"}
ArabicChars == {"ar", "alef", "alefH"}

\* what \s matches and strip() removes
IsSpace(c) == c \in {"sp", "nl"}
IsArabic(c) == c \in ArabicChars

\* len(arabic_pattern.findall(text)); the whitespace characters re.sub removes
CountArabic(s) == Cardinality({i \in 1..Len(s) : IsArabic(s[i])})
CountSpace(s) == Cardinality({i \in 1..Len(s) : IsSpace(s[i])})

RECURSIVE LStrip(_)
LStrip(s) == IF s # <<>> /\ IsSpace(Head(s)) THEN LStrip(Tail(s)) ELSE s
RECURSIVE RStrip(_)
RStrip(s) ==
    IF s # <<>> /\ IsSpace(s[Len(s)]) THEN RStrip(SubSeq(s, 1, Len(s) - 1)) ELSE s
Strip(s) == RStrip(LStrip(s))

has_arabic_chars_NonEmpty(s) == s # <<>>

has_arabic_chars(s) == \E i \in 1..Len(s) : IsArabic(s[i])

\* get_arabic_char_ratio(s) >= num/den, in integers
ArabicRatioAtLeast(s, num, den) ==
    IF s = <<>> THEN FALSE  \* ratio 0.0
    ELSE den * CountArabic(s) >= num * Max(Len(s) - CountSpace(s), 1)

has_mojibake(s) ==
    \/ \E i \in 1..Len(s) : s[i] = "rep"
    \/ \E i \in 1..(Len(s) - 1) : s[i] = "mojA" /\ s[i + 1] = "mojB"

MIN_TRANSLATION_LENGTH == 1

\* MIN_LENGTH_RATIO = 0.3 and MAX_LENGTH_RATIO = 3.0 as the fractions 3/10, 3/1;
\* MIN_ARABIC_CHAR_RATIO = 0.5 as 1/2
reasonable_length_NoUpperLimit(original, translated) ==
    IF Len(original) > 0
    THEN 10 * Len(translated) >= 3 * Len(original)
    ELSE TRUE

reasonable_length(original, translated) ==
    IF Len(original) > 0
    THEN /\ 10 * Len(translated) >= 3 * Len(original)
         /\ Len(translated) <= 3 * Len(original)
    ELSE TRUE

Checks_EmptyAccepted(original, translated) ==
    [not_empty |-> TRUE,
     has_arabic |-> has_arabic_chars(translated),
     arabic_ratio_ok |-> ArabicRatioAtLeast(translated, 1, 2),
     reasonable_length |-> reasonable_length(original, translated),
     no_encoding_errors |-> ~has_mojibake(translated)]

Checks(original, translated) ==
    [not_empty |-> Len(Strip(translated)) >= MIN_TRANSLATION_LENGTH,
     has_arabic |-> has_arabic_chars(translated),
     arabic_ratio_ok |-> ArabicRatioAtLeast(translated, 1, 2),
     reasonable_length |-> reasonable_length(original, translated),
     no_encoding_errors |-> ~has_mojibake(translated)]

validate_translation_SkipsEncoding(original, translated) ==
    LET checks == Checks(original, translated)
    IN  \A k \in DOMAIN checks \ {"no_encoding_errors"} : checks[k]

validate_translation(original, translated) ==
    LET checks == Checks(original, translated)
    IN  \A k \in DOMAIN checks : checks[k]

\* one call validate_translation(original, translated): before it returns, checks is
\* the empty dict of line 84.  final is what translate_with_retry returns for a
\* valid translation (None before), counted the counter translate_dataset
\* increments for it
Called(original, translated) ==
    [original |-> original, translated |-> translated, returned |-> FALSE,
     is_valid |-> FALSE, checks |-> [k \in {} |-> FALSE],
     final |-> <<"None">>, counted |-> "none"]
NoValidation == Called(<<>>, <<>>)
ValidatorIdle == validation = NoValidation

\* re.sub(r'[AlefForms]', bare Alef, text)
NormalizeAlef(s) == [i \in 1..Len(s) |-> IF s[i] = "alefH" THEN "alef" ELSE s[i]]

\* re.sub(r'\s+', ' ', text): every run of whitespace becomes one space
RECURSIVE CollapseSpaces(_)
CollapseSpaces(s) ==
    IF s = <<>> THEN <<>>
    ELSE IF ~IsSpace(s[1]) THEN <<s[1]>> \o CollapseSpaces(Tail(s))
    ELSE IF Len(s) >= 2 /\ IsSpace(s[2]) THEN CollapseSpaces(Tail(s))
    ELSE <<"sp">> \o CollapseSpaces(Tail(s))

clean_arabic_text(s) ==
    IF s = <<>> THEN <<>> ELSE Strip(CollapseSpaces(NormalizeAlef(s)))

\* Faulty variant: the last character is lost
postprocess_translation_DropsLast(s) ==
    SubSeq(clean_arabic_text(s), 1, Len(clean_arabic_text(s)) - 1)

postprocess_translation(s) == clean_arabic_text(s)

----------------------------------------------------------------------------
(* Pre-processing (core/preprocessing.py)                                  *)

\* re.sub(r'[\x00-\x08...]', '', text)
RECURSIVE RemoveControl(_)
RemoveControl(s) ==
    IF s = <<>> THEN <<>>
    ELSE IF Head(s) = "ctl" THEN RemoveControl(Tail(s))
    ELSE <<Head(s)>> \o RemoveControl(Tail(s))

\* re.sub(r'[ \t]+', ' ', text): every run of blanks becomes one space
RECURSIVE CollapseBlanks(_)
CollapseBlanks(s) ==
    IF Len(s) <= 1 THEN s
    ELSE IF s[1] = "sp" /\ s[2] = "sp" THEN CollapseBlanks(Tail(s))
    ELSE <<s[1]>> \o CollapseBlanks(Tail(s))

\* the length of the whitespace the text starts with
RECURSIVE LeadingSpace(_)
LeadingSpace(s) ==
    IF s # <<>> /\ IsSpace(Head(s)) THEN 1 + LeadingSpace(Tail(s)) ELSE 0

\* re.sub(r'\n\s*\n', '\n\n', text): a newline, the whitespace after it and the
\* last newline of that whitespace become two newlines
RECURSIVE CollapseBlankLines(_)
CollapseBlankLines(s) ==
    IF s = <<>> THEN <<>>
    ELSE LET rest == Tail(s)
             nls == {k \in 1..LeadingSpace(rest) : rest[k] = "nl"}
             last == CHOOSE k \in nls : \A m \in nls : m <= k
         IN  IF Head(s) = "nl" /\ nls # {}
             THEN <<"nl", "nl">> \o CollapseBlankLines(SubSeq(rest, last + 1, Len(rest)))
             ELSE <<Head(s)>> \o CollapseBlankLines(rest)

\* control characters removed, runs of blanks made one blank, blank lines made
\* one blank line, ends stripped
clean_text(s) ==
    IF s = <<>> THEN <<>>
    ELSE Strip(CollapseBlankLines(CollapseBlanks(RemoveControl(s))))

\* every provider term standing as a word is replaced by its generic wording
normalize_provider_terms(s) ==
    [i \in 1..Len(s) |-> IF s[i] = "term" THEN "generic" ELSE s[i]]

\* Faulty variant: the text is handed on as it is
preprocess_for_translation_Raw(s, normalize) == s

preprocess_for_translation(s, normalize) ==
    IF normalize THEN normalize_provider_terms(clean_text(s)) ELSE clean_text(s)

----------------------------------------------------------------------------
(* RateLimiter: the computations of acquire() and get_wait_time() on the   *)
(* deque q at clock value t                                                *)

\* Faulty variant: entries exactly 60 seconds old are evicted too
RECURSIVE Evict_AtBoundary(_, _)
Evict_AtBoundary(q, t) ==
    IF q # <<>> /\ t - Head(q) >= WINDOW THEN Evict_AtBoundary(Tail(q), t) ELSE q

\* while self.timestamps and now - self.timestamps[0] > 60: popleft()
RECURSIVE Evict(_, _)
Evict(q, t) ==
    IF q # <<>> /\ t - Head(q) > WINDOW THEN Evict(Tail(q), t) ELSE q

\* len(self.timestamps) >= self.rpm
AtLimit(q, n) == Len(q) >= n

\* Faulty variant: the wait is computed from the newest entry instead of the oldest
SleepTime_FromNewest(q, t) == WINDOW - (t - q[Len(q)])

\* sleep_time = 60 - (now - self.timestamps[0])
SleepTime(q, t) == WINDOW - (t - Head(q))

\* acquire() sleeps: the limit is hit and sleep_time > 0
MustSleep(q, n, t) == AtLimit(q, n) /\ SleepTime(q, t) > 0

\* what get_wait_time() returns, on the deque already evicted
WaitTime(q, n, t) == IF AtLimit(q, n) THEN Max(0, SleepTime(q, t)) ELSE 0

\* The tags of tsFor follow the deque: as many dropped at the head as q lost
DropTags(tags, q, q2) == SubSeq(tags, Len(q) - Len(q2) + 1, Len(tags))

----------------------------------------------------------------------------
(* Providers (apis/nvidia.py, apis/fanar.py): opaque functions returning a *)
(* result {success, translation, error}                                    *)

NoText == <<"None">>       \* None where a text is expected

Texts ==
    {<<"lat", "lat">>, <<"term", "sp", "nl", "sp", "sp", "nl", "nl", "lat", "ctl">>}

Responses == {<<>>, <<"alefH", "sp", "sp", "ar">>, <<"lat", "lat">>, <<"ar", "ar", "sp">>}

Failure == [success |-> FALSE, translation |-> NoText, error |-> "error"]
Success(s) == [success |-> TRUE, translation |-> s, error |-> None]

\* nvidia: completion.choices[0].message.content, whatever it is (None included),
\* or the caught exception
NvidiaResults == {Failure} \cup {Success(s) : s \in Responses \cup {NoText}}

\* fanar: generate() returns the stripped content, or None; "if result" keeps
\* the non-empty ones
FanarResults ==
    {Failure} \cup {Success(Strip(s)) : s \in {r \in Responses : Strip(r) # <<>>}}

ResultsOf(api) == IF api = "nvidia" THEN NvidiaResults ELSE FanarResults

NoResult == [translation |-> NoText, api |-> None, error |-> None]
\* Faulty variant: the failure is returned without its error message
Exhausted_NoError == [translation |-> NoText, api |-> "failed", error |-> None]

\* line 189: return None, "failed", "All API attempts exhausted"
Exhausted ==
    [translation |-> NoText, api |-> "failed", error |-> "All API attempts exhausted"]

----------------------------------------------------------------------------
(* translate_with_retry (core/pipeline.py)                                 *)

\* apis: the primary first, the other one appended when fallback is enabled
OtherApi(api) == IF api = "nvidia" THEN "fanar" ELSE "nvidia"
\* Faulty variant: the fallback provider is put first
Apis_FallbackFirst(primary, fallback) ==
    IF fallback THEN <<OtherApi(primary), primary>> ELSE <<primary>>

Apis(primary, fallback) ==
    IF fallback THEN <<primary, OtherApi(primary)>> ELSE <<primary>>

apis == Apis(primary_api, enable_fallback)
CurApi == apis[apiIdx]

\* What an attempt makes of the provider's result res for the original orig:
\*   "error"      result['success'] is false
\*   "exception"  validate_translation(text, None) raises, caught at line 179
\*   "invalid"    a check of validate_translation fails
\*   "valid"      the result is post-processed and returned
\* (Outcome_Unvalidated is the faulty variant that returns a successful result unchecked.)
Outcome_Unvalidated(orig, res) ==
    IF ~res.success THEN "error"
    ELSE IF res.translation = NoText THEN "exception"
    ELSE "valid"

\* Faulty variant: a null translation is not looked at and goes on to be returned
Outcome_NullReturned(orig, res) ==
    IF ~res.success THEN "error"
    ELSE IF res.translation = NoText THEN "valid"
    ELSE IF validate_translation(orig, res.translation) THEN "valid"
    ELSE "invalid"

Outcome(orig, res) ==
    IF ~res.success THEN "error"
    ELSE IF res.translation = NoText THEN "exception"
    ELSE IF validate_translation(orig, res.translation) THEN "valid"
    ELSE "invalid"

\* Faulty variant: the backoff sleep is taken after the last attempt too
NeedsBackoff_AfterLast(a, mr) == a < mr

\* if attempt < max_retries - 1: the backoff sleep is taken
NeedsBackoff(a, mr) == a < mr - 1

\* Faulty variant: the same sleep after every failed attempt
BackoffTime_Constant(a) == 1

\* sleep_time = BACKOFF_MULTIPLIER ** attempt
BackoffTime(a) == Pow(BACKOFF_MULTIPLIER, a)

\* The loops "for api in apis: for attempt in range(max_retries)": the position
\* after attempt a of api number i failed, n apis in all
\* Faulty variant: the primary is given one attempt less before the next api is tried
NextPos_EarlyFallback(i, a, mr, n) ==
    IF a + 2 < mr THEN [apiIdx |-> i, attempt |-> a + 1, done |-> FALSE]
    ELSE IF i < n THEN [apiIdx |-> i + 1, attempt |-> 0, done |-> FALSE]
    ELSE [apiIdx |-> i, attempt |-> a, done |-> TRUE]

\* Faulty variant: the loops give up once the clock has passed a deadline
NextPos_Deadline(i, a, mr, n) ==
    IF now >= 2 * TimeStep THEN [apiIdx |-> i, attempt |-> a, done |-> TRUE]
    ELSE IF a + 1 < mr THEN [apiIdx |-> i, attempt |-> a + 1, done |-> FALSE]
    ELSE IF i < n THEN [apiIdx |-> i + 1, attempt |-> 0, done |-> FALSE]
    ELSE [apiIdx |-> i, attempt |-> a, done |-> TRUE]

NextPos(i, a, mr, n) ==
    IF a + 1 < mr THEN [apiIdx |-> i, attempt |-> a + 1, done |-> FALSE]
    ELSE IF i < n THEN [apiIdx |-> i + 1, attempt |-> 0, done |-> FALSE]
    ELSE [apiIdx |-> i, attempt |-> a, done |-> TRUE]

\* The log tells a valid result from a failed attempt
Logged(out) == IF out = "valid" THEN "valid" ELSE "failed"

Event(e, api, n, r) == [e |-> e, api |-> api, n |-> n, r |-> r]

\* The clock advances
Tick ==
    /\ now + TimeStep <= MaxTime
    /\ now' = now + TimeStep
    /\ UNCHANGED <<validation, dsVars, rpm, timestamps, tsFor, admitted, engVars, thrVars>>

\* translate_dataset calls translate_with_retry(text): lines 128-146
StartCall(t, mr) ==
    /\ pc = "idle"
    /\ cellsDone < MaxCells
    /\ text' = t
    /\ processed_text' = preprocess_for_translation(t, normalize_terms)
    /\ max_retries' = mr
    /\ apiIdx' = 1
    /\ attempt' = 0
    /\ log' = <<>>
    /\ pc' = "attempt"
    /\ resp' = Failure      \* the locals of the call are fresh
    /\ sent' = <<>>
    /\ wakeAt' = 0
    /\ UNCHANGED <<validation, dsVars, limVars, thrVars, cfgVars, result, cellsDone>>

\* Faulty variant: the provider is called without acquire()
EngGetWaitTime_SkipsAcquire ==
    /\ pc = "attempt"
    /\ pc' = "call"
    /\ UNCHANGED <<validation, dsVars, limVars, thrVars, cfgVars, text, processed_text,
                   sent, max_retries, apiIdx, attempt, wakeAt, resp, result, log, cellsDone>>

\* lines 151-154: the limiter's get_wait_time(), when a limiter is attached
EngGetWaitTime ==
    /\ pc = "attempt"
    /\ IF rpm = 0
       THEN /\ pc' = "call"
            /\ UNCHANGED <<timestamps, tsFor>>
       ELSE /\ timestamps' = Evict(timestamps, now)
            /\ tsFor' = DropTags(tsFor, timestamps, timestamps')
            /\ pc' = "acquire"
    /\ UNCHANGED <<validation, dsVars, rpm, now, admitted, thrVars, cfgVars, text, processed_text,
                   sent, max_retries, apiIdx, attempt, wakeAt, resp, result, log, cellsDone>>

\* line 155, rate_limiter.py 30-48: acquire() up to its sleep, or to its end
EngAcquire ==
    /\ pc = "acquire"
    /\ LET q == Evict(timestamps, now)
           tags == DropTags(tsFor, timestamps, q)
       IN  IF MustSleep(q, rpm, now)
           THEN /\ timestamps' = q
                /\ tsFor' = tags
                /\ wakeAt' = now + SleepTime(q, now)
                /\ pc' = "acq_sleep"
                /\ log' = log
           ELSE /\ timestamps' = Append(q, now)
                /\ tsFor' = Append(tags, CurApi)
                /\ wakeAt' = wakeAt
                /\ pc' = "call"
                /\ log' = Append(log, Event("acquire", CurApi, attempt, "-"))
    /\ UNCHANGED <<validation, dsVars, rpm, now, admitted, thrVars, cfgVars, text, processed_text,
                   sent, max_retries, apiIdx, attempt, resp, result, cellsDone>>

\* rate_limiter.py 41-48: the sleep returns, the deque is cleaned again and the
\* request recorded
EngAcquireWake ==
    /\ pc = "acq_sleep"
    /\ now >= wakeAt
    /\ LET q == Evict(timestamps, now)
       IN  /\ timestamps' = Append(q, now)
           /\ tsFor' = Append(DropTags(tsFor, timestamps, q), CurApi)
    /\ pc' = "call"
    /\ log' = Append(log, Event("acquire", CurApi, attempt, "-"))
    /\ UNCHANGED <<validation, dsVars, rpm, now, admitted, thrVars, cfgVars, text, processed_text,
                   sent, max_retries, apiIdx, attempt, wakeAt, resp, result, cellsDone>>

\* The loops go on after a failed attempt: the next attempt, the next api, or
\* line 189 once both loops are over
Continue ==
    LET nxt == NextPos(apiIdx, attempt, max_retries, Len(apis))
    IN  /\ apiIdx' = nxt.apiIdx
        /\ attempt' = nxt.attempt
        /\ IF nxt.done
           THEN /\ result' = Exhausted
                /\ pc' = "idle"
                /\ cellsDone' = cellsDone + 1
           ELSE /\ pc' = "attempt"
                /\ UNCHANGED <<result, cellsDone>>

\* lines 158-189: the provider answers res; the result is validated and either
\* returned, or the attempt has failed: backoff sleep, next attempt, next api,
\* or the end of the loops
EngCall(res) ==
    /\ pc = "call"
    /\ sent' = processed_text
    /\ resp' = res
    /\ LET out == Outcome(text, res)
           called == Append(log, Event("call", CurApi, attempt, Logged(out)))
       IN  IF out = "valid"
           THEN /\ result' = [translation |-> postprocess_translation(res.translation),
                              api |-> CurApi, error |-> None]
                /\ log' = called
                /\ pc' = "idle"
                /\ cellsDone' = cellsDone + 1
                /\ UNCHANGED <<apiIdx, attempt, wakeAt>>
           ELSE IF NeedsBackoff(attempt, max_retries)
           THEN /\ wakeAt' = now + BackoffTime(attempt)
                /\ log' = Append(called, Event("sleep", CurApi, BackoffTime(attempt), "-"))
                /\ pc' = "backoff"
                /\ UNCHANGED <<apiIdx, attempt, result, cellsDone>>
           ELSE /\ log' = called
                /\ Continue
                /\ UNCHANGED wakeAt
    /\ UNCHANGED <<validation, dsVars, limVars, thrVars, cfgVars, text, processed_text, max_retries>>

\* line 186: the backoff sleep returns, the next attempt starts
EngBackoffWake ==
    /\ pc = "backoff"
    /\ now >= wakeAt
    /\ Continue
    /\ UNCHANGED <<validation, dsVars, limVars, thrVars, cfgVars, text, processed_text, sent, max_retries,
                   wakeAt, resp, log>>

----------------------------------------------------------------------------
(* The datasets of translate_dataset (core/pipeline.py): pandas frames.    *)
(* A frame is its index (the row labels, in order), its columns (in order) *)
(* and its rows, one function from column to cell per position.  A cell is *)
(* a text, a provider tag, None or NaN.                                    *)

NaN == <<"NaN">>           \* pandas' missing value
Tag(api) == <<api>>        \* a provider name as a cell
IsNull(v) == v = NoText \/ v = NaN

\* f"{col}_ar" and f"{col}_api"; an input column c is <<c>>
Col(c) == <<c>>
ArCol(c) == <<c, "_ar">>
ApiCol(c) == <<c, "_api">>

Frame(index, columns, rows) == [index |-> index, columns |-> columns, rows |-> rows]
EmptyFrame == Frame(<<>>, <<>>, <<>>)      \* pd.DataFrame()
ColSet(f) == {f.columns[j] : j \in 1..Len(f.columns)}
Labels(f) == {f.index[p] : p \in 1..Len(f.index)}
PosOf(f, label) == CHOOSE p \in 1..Len(f.index) : f.index[p] = label
RangeIndex(n) == [p \in 1..n |-> p - 1]
Min(a, b) == IF a <= b THEN a ELSE b

\* result_df[c] = v for a scalar v: every row gets v, a new column is appended
SetColumn(f, c, v) ==
    Frame(f.index,
          IF c \in ColSet(f) THEN f.columns ELSE Append(f.columns, c),
          [p \in 1..Len(f.rows) |->
              [k \in ColSet(f) \cup {c} |-> IF k = c THEN v ELSE f.rows[p][k]]])

\* result_df.at[label, c] = v: sets the cell of the row labelled label; a label
\* the index does not hold is appended as a new row, NaN in its other columns
\* (DataFrame._set_value falls back to .loc, which enlarges the frame)
AtSet(f, label, c, v) ==
    IF label \in Labels(f)
    THEN Frame(f.index, f.columns,
               [f.rows EXCEPT ![PosOf(f, label)] = [@ EXCEPT ![c] = v]])
    ELSE Frame(Append(f.index, label), f.columns,
               Append(f.rows, [k \in ColSet(f) |-> IF k = c THEN v ELSE NaN]))

\* result_df[c] = g[c] for a column of another frame: the values are aligned on
\* the row labels, NaN where g has no such label; a frame without rows takes
\* over g's index first (its other columns become NaN)
AssignColumn(f, c, g) ==
    LET adopt == f.index = <<>> /\ g.index # <<>>
        index == IF adopt THEN g.index ELSE f.index
        old(p, k) == IF adopt THEN NaN ELSE f.rows[p][k]
        new(p) == IF index[p] \in Labels(g) THEN g.rows[PosOf(g, index[p])][c] ELSE NaN
    IN  Frame(index, f.columns,
              [p \in 1..Len(index) |->
                  [k \in ColSet(f) |-> IF k = c THEN new(p) ELSE old(p, k)]])

\* df.iloc[:n]: the first n rows by position
ILoc(f, n) ==
    Frame(SubSeq(f.index, 1, Min(n, Len(f.index))), f.columns,
          SubSeq(f.rows, 1, Min(n, Len(f.rows))))

(* CSV files: to_csv(index=False) writes the header and one line of fields *)
(* per row, a null cell as an empty field; read_csv numbers the rows from  *)
(* 0 and reads an empty field as NaN.                                      *)

EmptyField == <<>>
Field(v) == IF IsNull(v) THEN EmptyField ELSE v
Parse(fld) == IF fld = EmptyField THEN NaN ELSE fld

\* a file opened for writing and not written yet: no header, no line
EmptyFile == [columns |-> <<>>, rows |-> <<>>]

ToCsv(f) ==
    [columns |-> f.columns,
     rows |-> [p \in 1..Len(f.rows) |-> [k \in ColSet(f) |-> Field(f.rows[p][k])]]]

ReadCsv(file) ==
    Frame(RangeIndex(Len(file.rows)), file.columns,
          [p \in 1..Len(file.rows) |->
              [k \in DOMAIN file.rows[p] |-> Parse(file.rows[p][k])]])

(* Checkpoint file names: f"checkpoint_{current_idx}.csv", as the sequence *)
(* of their characters after "checkpoint_" (the extension is one item).    *)

DigitChars == <<"0", "1", "2", "3", "4", "5", "6", "7", "8", "9">>
RECURSIVE Digits(_)
Digits(k) ==
    IF k < 10 THEN <<DigitChars[k + 1]>>
    ELSE Append(Digits(k \div 10), DigitChars[(k % 10) + 1])

FileName(k) == Append(Digits(k), ".csv")
Stem(name) == SubSeq(name, 1, Len(name) - 1)

\* int(checkpoint_file.stem.split('_')[1])
DigitVal(ch) == CHOOSE d \in 0..9 : DigitChars[d + 1] = ch
RECURSIVE ParseInt(_)
ParseInt(ds) ==
    IF Len(ds) = 1 THEN DigitVal(ds[1])
    ELSE 10 * ParseInt(SubSeq(ds, 1, Len(ds) - 1)) + DigitVal(ds[Len(ds)])

RowCount(name) == ParseInt(Stem(name))

\* the order of sorted(): paths compare as strings, character by character
\* ("." is 46, the digits are 48..57)
Code(ch) == IF ch = ".csv" THEN 46 ELSE 48 + DigitVal(ch)
RECURSIVE StrLess(_, _)
StrLess(a, b) ==
    IF a = <<>> THEN b # <<>>
    ELSE IF b = <<>> THEN FALSE
    ELSE IF Code(Head(a)) # Code(Head(b)) THEN Code(Head(a)) < Code(Head(b))
    ELSE StrLess(Tail(a), Tail(b))

\* sorted(self.checkpoint_dir.glob("checkpoint_*.csv"))[-1]
LastSorted(names) == CHOOSE n \in names : \A m \in names : m = n \/ StrLess(m, n)

NoName == <<>>             \* checkpoint_name = None
NoFiles == [n \in {} |-> EmptyFile]
Files(dir) == DOMAIN dir
WriteFile(dir, name, file) ==
    [n \in Files(dir) \cup {name} |-> IF n = name THEN file ELSE dir[n]]

(* translate_dataset: the run's configuration, inputs and bookkeeping      *)

NoTime == -1               \* start_time / end_time = None

\* self.stats as __init__ leaves it
NewStats ==
    [total |-> 0, successful |-> 0, failed |-> 0, nvidia_used |-> 0, fanar_used |-> 0,
     start_time |-> NoTime, end_time |-> NoTime, failed_rows |-> <<>>]

\* The input datasets: n rows labelled 0..n-1, two text columns
InputColumns == <<"question", "answer">>
InputText(i, c) ==
    IF c = "question" THEN <<"lat", "lat">> ELSE <<"term", "sp", "sp", "lat", "ctl">>
InputFrame(n) ==
    Frame(RangeIndex(n),
          [j \in 1..Len(InputColumns) |-> Col(InputColumns[j])],
          [p \in 1..n |->
              [k \in {Col(InputColumns[j]) : j \in 1..Len(InputColumns)} |->
                  InputText(p - 1, k[1])]])
ColumnChoices == {<<"question">>, <<"question", "answer">>}

\* lines 216-221: the output starts as a copy of the input or as an empty frame,
\* and gets the columns {col}_ar and {col}_api, None everywhere
RECURSIVE AddOutputColumns(_, _)
AddOutputColumns(f, cols) ==
    IF cols = <<>> THEN f
    ELSE AddOutputColumns(
             SetColumn(SetColumn(f, ArCol(Head(cols)), NoText), ApiCol(Head(cols)), NoText),
             Tail(cols))

\* Faulty variant: the output always starts empty
InitialOutput_AlwaysEmpty(d, cols, preserve) == AddOutputColumns(EmptyFrame, cols)

InitialOutput(d, cols, preserve) ==
    AddOutputColumns(IF preserve THEN d ELSE EmptyFrame, cols)

\* What translate_with_retry(text) can return: the exhausted triple, or the
\* post-processed valid answer of one of the apis.  In the runs over a dataset
\* the providers' valid answer is the one of Answers.
Answers == {<<"alefH", "sp", "sp", "ar">>}
ValidResults(txt, api) ==
    {r \in ResultsOf(api) :
        r.success /\ r.translation \in Answers /\ Outcome(txt, r) = "valid"}
Returns(txt, primary, fallback) ==
    {Exhausted} \cup
    UNION {{[translation |-> postprocess_translation(r.translation),
             api |-> Apis(primary, fallback)[j], error |-> None] :
               r \in ValidResults(txt, Apis(primary, fallback)[j])} :
           j \in 1..Len(Apis(primary, fallback))}

\* "if translation:" None and the empty string are false
Truthy(t) == t # NoText /\ t # <<>>

\* Faulty variant: the provider's counter is left out
Succeeded_ProviderUncounted(st, api) == [st EXCEPT !.successful = @ + 1]

\* lines 243-248
Succeeded(st, api) ==
    [st EXCEPT !.successful = @ + 1,
               !.nvidia_used = IF api = "nvidia" THEN @ + 1 ELSE @,
               !.fanar_used = IF api = "fanar" THEN @ + 1 ELSE @]

\* lines 250-255
FailedCell(st, i, col, err) ==
    [st EXCEPT !.failed = @ + 1,
               !.failed_rows = Append(@, [row_idx |-> i, column |-> col, error |-> err])]

\* Faulty variant: the test is made on idx instead of idx + 1
IsCheckpointRow_OffByOne(i) == i % CHECKPOINT_INTERVAL = 0

\* line 259: (idx + 1) % CHECKPOINT_INTERVAL == 0
IsCheckpointRow(i) == (i + 1) % CHECKPOINT_INTERVAL = 0

\* "for idx in range(start_idx, len(df))": the next row, or the end of the loop
LoopHead(i, n) ==
    [dpc |-> IF i < n THEN "cell" ELSE "finalize", idx |-> i, colIdx |-> 1]

\* Faulty variant: a failed cell ends its row
AfterCell_SkipRow(i, c, ncols, n, ok) ==
    IF ok /\ c < ncols THEN [dpc |-> "cell", idx |-> i, colIdx |-> c + 1]
    ELSE IF IsCheckpointRow(i) THEN [dpc |-> "save", idx |-> i, colIdx |-> 1]
    ELSE LoopHead(i + 1, n)

\* Faulty variant: the loops are nested the other way round, a column is taken
\* through every row before the next column
AfterCell_ColumnMajor(i, c, ncols, n, ok) ==
    IF i + 1 < n THEN [dpc |-> "cell", idx |-> i + 1, colIdx |-> c]
    ELSE IF c < ncols THEN [dpc |-> "cell", idx |-> 0, colIdx |-> c + 1]
    ELSE LoopHead(n, n)

\* Where the loops stand after cell c of row i is resolved (ok: it succeeded):
\* the next column, the checkpoint of line 260, or the next row
AfterCell(i, c, ncols, n, ok) ==
    IF c < ncols THEN [dpc |-> "cell", idx |-> i, colIdx |-> c + 1]
    ELSE IF IsCheckpointRow(i) THEN [dpc |-> "save", idx |-> i, colIdx |-> 1]
    ELSE LoopHead(i + 1, n)

\* _load_checkpoint, lines 289-297: the file to read; NoName when the directory
\* holds no checkpoint
CheckpointFile(dir, name) ==
    IF name # NoName THEN name
    ELSE IF Files(dir) = {} THEN NoName
    ELSE LastSorted(Files(dir))

\* lines 303-305: every column of the checkpoint that the output has is copied
RECURSIVE CopyColumns(_, _, _)
CopyColumns(f, g, cols) ==
    IF cols = <<>> THEN f
    ELSE CopyColumns(IF Head(cols) \in ColSet(f) THEN AssignColumn(f, Head(cols), g) ELSE f,
                     g, Tail(cols))

\* Faulty variant: a missing checkpoint is an error
load_checkpoint_MissingRaises(f, dir, name) ==
    LET file == CheckpointFile(dir, name)
    IN  IF file = NoName \/ file \notin Files(dir) \/ dir[file] = EmptyFile
        THEN [raised |-> TRUE, frame |-> f, idx |-> 0, file |-> NoName,
              content |-> EmptyFile]
        ELSE [raised |-> FALSE,
              frame |-> CopyColumns(f, ReadCsv(dir[file]), dir[file].columns),
              idx |-> RowCount(file), file |-> file, content |-> dir[file]]

\* _load_checkpoint(result_df, checkpoint_name): the frame as it leaves it, the
\* index it returns and the file it read; read_csv raises on a file without
\* a header
load_checkpoint(f, dir, name) ==
    LET file == CheckpointFile(dir, name)
    IN  IF file = NoName \/ file \notin Files(dir)
        THEN [raised |-> FALSE, frame |-> f, idx |-> 0, file |-> NoName,
              content |-> EmptyFile]
        ELSE IF dir[file] = EmptyFile
        THEN [raised |-> TRUE, frame |-> f, idx |-> 0, file |-> file,
              content |-> EmptyFile]
        ELSE [raised |-> FALSE,
              frame |-> CopyColumns(f, ReadCsv(dir[file]), dir[file].columns),
              idx |-> RowCount(file), file |-> file, content |-> dir[file]]

NotLoaded ==
    [raised |-> FALSE, idx |-> 0, file |-> NoName, content |-> EmptyFile,
     expected |-> <<>>]

\* no run of translate_dataset yet
DatasetIdle ==
    /\ columns_to_translate = <<>>
    /\ preserve_all_columns = TRUE
    /\ resume_from_checkpoint = FALSE
    /\ checkpoint_name = NoName
    /\ result_df = EmptyFrame
    /\ stats = NewStats
    /\ checkpoint_dir = NoFiles
    /\ dpc = "none"
    /\ idx = 0
    /\ colIdx = 1
    /\ cur = NoResult
    /\ runs = 0
    /\ calls = <<>>
    /\ saves = <<>>
    /\ loaded = NotLoaded
    /\ troubled = 0

----------------------------------------------------------------------------
Op(op, by, evicted, val) == [op |-> op, by |-> by, evicted |-> evicted, val |-> val]

ThreadsIdle ==
    /\ tpc = [t \in Threads |-> "idle"]
    /\ lock = NoThread
    /\ twake = [t \in Threads |-> 0]
    /\ lastOp = Op("none", NoThread, 0, 0)

EngineIdle ==
    /\ pc = "idle"
    /\ text = <<>>
    /\ processed_text = <<>>
    /\ sent = <<>>
    /\ max_retries = MAX_RETRIES
    /\ apiIdx = 1
    /\ attempt = 0
    /\ wakeAt = 0
    /\ resp = Failure
    /\ result = NoResult
    /\ log = <<>>
    /\ cellsDone = 0

\* TranslationPipeline.__init__, RateLimiter.__init__
Init ==
    /\ rpm \in 0..MaxRpm
    /\ timestamps = <<>>
    /\ now = 0
    /\ tsFor = <<>>
    /\ admitted = <<>>
    /\ primary_api \in {"nvidia", "fanar"}
    /\ enable_fallback \in BOOLEAN
    /\ normalize_terms \in BOOLEAN
    /\ EngineIdle
    /\ ThreadsIdle
    /\ df = EmptyFrame
    /\ DatasetIdle
    /\ ValidatorIdle

Next ==
    \/ Tick
    \/ \E t \in Texts, mr \in 1..MAX_RETRIES : StartCall(t, mr)
    \/ EngGetWaitTime
    \/ EngAcquire
    \/ EngAcquireWake
    \/ \E res \in ResultsOf(CurApi) : EngCall(res)
    \/ EngBackoffWake

Spec == Init /\ [][Next]_vars

----------------------------------------------------------------------------
(* Several threads on one RateLimiter instance.  "with self.lock" is held  *)
(* over the whole body of acquire() and of get_wait_time(), the sleep of   *)
(* acquire() included; a body that does not sleep runs in one step.        *)

\* a thread calls acquire() and reaches "with self.lock"
TAcquireCall(t) ==
    /\ tpc[t] = "idle"
    /\ Len(admitted) + Cardinality({u \in Threads : tpc[u] \in {"acq_lock", "acq_sleep"}})
          < MaxAdmit
    /\ tpc' = [tpc EXCEPT ![t] = "acq_lock"]
    /\ UNCHANGED <<validation, dsVars, limVars, engVars, lock, twake, lastOp>>

\* rate_limiter.py 30-48: the lock is taken; the deque is cleaned; at the limit
\* with sleep_time > 0 the thread goes to sleep holding the lock, otherwise the
\* request is recorded and the lock released
TAcquireEnter(t) ==
    /\ tpc[t] = "acq_lock"
    /\ lock = NoThread
    /\ LET q == Evict(timestamps, now)
           tags == DropTags(tsFor, timestamps, q)
       IN  IF MustSleep(q, rpm, now)
           THEN /\ timestamps' = q
                /\ tsFor' = tags
                /\ lock' = t
                /\ twake' = [twake EXCEPT ![t] = now + SleepTime(q, now)]
                /\ lastOp' = Op("acquire", t, Len(timestamps) - Len(q), SleepTime(q, now))
                /\ tpc' = [tpc EXCEPT ![t] = "acq_sleep"]
                /\ UNCHANGED admitted
           ELSE /\ timestamps' = Append(q, now)
                /\ tsFor' = Append(tags, t)
                /\ admitted' = Append(admitted, now)
                /\ lastOp' = Op("acquire", t, Len(timestamps) - Len(q), 0)
                /\ tpc' = [tpc EXCEPT ![t] = "idle"]
                /\ UNCHANGED <<lock, twake>>
    /\ UNCHANGED <<validation, dsVars, rpm, now, engVars>>

\* Faulty variant: the lock is not released when acquire() returns after its sleep
TAcquireWake_KeepsLock(t) ==
    /\ tpc[t] = "acq_sleep"
    /\ now >= twake[t]
    /\ LET q == Evict(timestamps, now)
       IN  /\ timestamps' = Append(q, now)
           /\ tsFor' = Append(DropTags(tsFor, timestamps, q), t)
    /\ admitted' = Append(admitted, now)
    /\ twake' = [twake EXCEPT ![t] = 0]
    /\ tpc' = [tpc EXCEPT ![t] = "idle"]
    /\ UNCHANGED <<validation, dsVars, rpm, now, engVars, lastOp, lock>>

\* rate_limiter.py 41-48: the sleep returns; the deque is cleaned again, the
\* request recorded and the lock released
TAcquireWake(t) ==
    /\ tpc[t] = "acq_sleep"
    /\ now >= twake[t]
    /\ LET q == Evict(timestamps, now)
       IN  /\ timestamps' = Append(q, now)
           /\ tsFor' = Append(DropTags(tsFor, timestamps, q), t)
    /\ admitted' = Append(admitted, now)
    /\ lock' = NoThread
    /\ twake' = [twake EXCEPT ![t] = 0]
    /\ tpc' = [tpc EXCEPT ![t] = "idle"]
    /\ UNCHANGED <<validation, dsVars, rpm, now, engVars, lastOp>>

\* a thread calls get_wait_time() and reaches "with self.lock"
TGetWaitCall(t) ==
    /\ tpc[t] = "idle"
    /\ tpc' = [tpc EXCEPT ![t] = "gwt_lock"]
    /\ UNCHANGED <<validation, dsVars, limVars, engVars, lock, twake, lastOp>>

\* rate_limiter.py 57-67: the lock is taken, the deque cleaned, the wait computed
TGetWaitEnter(t) ==
    /\ tpc[t] = "gwt_lock"
    /\ lock = NoThread
    /\ timestamps' = Evict(timestamps, now)
    /\ tsFor' = DropTags(tsFor, timestamps, timestamps')
    /\ lastOp' = Op("get_wait_time", t, Len(timestamps) - Len(timestamps'),
                    WaitTime(timestamps', rpm, now))
    /\ tpc' = [tpc EXCEPT ![t] = "idle"]
    /\ UNCHANGED <<validation, dsVars, rpm, now, admitted, engVars, lock, twake>>

\* RateLimiter.__init__ with requests_per_minute in 1..MaxRpm; no pipeline runs
InitLimiter ==
    /\ rpm \in 1..MaxRpm
    /\ timestamps = <<>>
    /\ now = 0
    /\ tsFor = <<>>
    /\ admitted = <<>>
    /\ primary_api = "nvidia"
    /\ enable_fallback = FALSE
    /\ normalize_terms = TRUE
    /\ EngineIdle
    /\ ThreadsIdle
    /\ df = EmptyFrame
    /\ DatasetIdle
    /\ ValidatorIdle

NextLimiter ==
    \/ Tick
    \/ \E t \in Threads : TAcquireCall(t)
    \/ \E t \in Threads : TAcquireEnter(t)
    \/ \E t \in Threads : TAcquireWake(t)
    \/ \E t \in Threads : TGetWaitCall(t)
    \/ \E t \in Threads : TGetWaitEnter(t)

SpecLimiter == InitLimiter /\ [][NextLimiter]_vars

\* time.sleep(sleep_time) of a sleeping acquire() runs out: the clock reaches
\* the time at which it returns
SleepElapses ==
    /\ \E t \in Threads : /\ tpc[t] = "acq_sleep"
                          /\ now < twake[t]
                          /\ now' = twake[t]
    /\ UNCHANGED <<validation, dsVars, rpm, timestamps, tsFor, admitted, engVars, thrVars>>

NextLimiterFair ==
    \/ NextLimiter
    \/ SleepElapses

\* a thread that can go on does: a sleep runs out, a sleeper wakes up, and a
\* thread waiting for the free lock takes it
FairLimiter ==
    /\ WF_vars(SleepElapses)
    /\ \A t \in Threads : /\ WF_vars(TAcquireEnter(t))
                          /\ WF_vars(TAcquireWake(t))
                          /\ WF_vars(TGetWaitEnter(t))

SpecLimiterFair == InitLimiter /\ [][NextLimiterFair]_vars /\ FairLimiter

----------------------------------------------------------------------------
(* Properties of translate_with_retry, under Spec                          *)

IsCall(ev) == ev.e = "call"
IsCallOrSleep(ev) == ev.e \in {"call", "sleep"}

\* number of provider calls the current (or last) translate_with_retry made to api
CallsTo(api) == Cardinality({i \in 1..Len(log) : log[i].e = "call" /\ log[i].api = api})

\* translate_with_retry has returned and nothing was started since
Returned == pc = "idle" /\ cellsDone > 0

fallback_api == OtherApi(primary_api)

\* C1: with fallback disabled and every attempt of the primary failed (provider
\* error, exception or validation failure), translate_with_retry returns
\* (None, "failed", "All API attempts exhausted") after exactly max_retries calls
\* to the primary and none to the other provider; between consecutive attempts it
\* sleeps BACKOFF_MULTIPLIER^0 .. BACKOFF_MULTIPLIER^(max_retries-2), and it does
\* not sleep after the last attempt.
C1_ExhaustedAfterMaxRetries ==
    (/\ Returned
     /\ ~enable_fallback
     /\ \A i \in 1..Len(log) : log[i].e = "call" => log[i].r = "failed")
    => LET cs == SelectSeq(log, IsCallOrSleep)
       IN  /\ result = Exhausted
           /\ CallsTo(primary_api) = max_retries
           /\ CallsTo(fallback_api) = 0
           /\ Len(cs) = 2 * max_retries - 1
           /\ \A j \in 1..Len(cs) :
                IF j % 2 = 1
                THEN cs[j].e = "call" /\ cs[j].n = (j - 1) \div 2
                ELSE cs[j].e = "sleep" /\ cs[j].n = BACKOFF_MULTIPLIER ^ ((j \div 2) - 1)
           /\ log[Len(log)].e = "call"

C1_Witness ==
    /\ Returned
    /\ ~enable_fallback
    /\ max_retries = MAX_RETRIES
    /\ result = Exhausted
    /\ CallsTo(primary_api) = MAX_RETRIES

\* C2: if the k-th attempt of the primary is the first to return a translation
\* that passes validation, translate_with_retry returns that translation
\* post-processed, tagged with the primary's name, after exactly k calls to the
\* primary and none to the fallback; the valid call is the last thing it does
\* (no call, acquire or sleep after it).
C2_FirstValidWins ==
    \A j \in 1..Len(log) :
        (log[j].e = "call" /\ log[j].r = "valid" /\ log[j].api = primary_api)
        => /\ j = Len(log)
           /\ Returned
           /\ result.api = primary_api
           /\ result.error = None
           /\ result.translation = clean_arabic_text(resp.translation)
           /\ CallsTo(primary_api) = log[j].n + 1
           /\ \A i \in 1..(j - 1) : log[i].e = "call" => log[i].r = "failed"
           /\ CallsTo(fallback_api) = 0

\* the primary failed once, then returned a valid translation that
\* post-processing changes
C2_Witness ==
    /\ Returned
    /\ enable_fallback
    /\ CallsTo(primary_api) = 2
    /\ log[Len(log)].r = "valid"
    /\ result.api = primary_api
    /\ result.translation # resp.translation

\* the step in which the provider's answer is received and handled
CallStep == pc = "call" /\ pc' # "call"

\* what the code does after a failed attempt: backoff and retry, or the next
\* provider, or giving up
FailedAttemptStep ==
    IF attempt < max_retries - 1
    THEN /\ pc' = "backoff"
         /\ wakeAt' = now + BACKOFF_MULTIPLIER ^ attempt
         /\ attempt' = attempt /\ apiIdx' = apiIdx
         /\ result' = result
    ELSE IF apiIdx < Len(apis)
    THEN pc' = "attempt" /\ apiIdx' = apiIdx + 1 /\ attempt' = 0 /\ result' = result
    ELSE pc' = "idle" /\ result' = Exhausted

\* C3: a translation is returned only if the provider's response passed
\* validate_translation against the original text, and a response that fails
\* validation is handled exactly as a provider error: it uses up the attempt.
C3_InvalidNeverReturned ==
    /\ [](Returned /\ result.translation # NoText
            => /\ resp.success
               /\ resp.translation # NoText
               /\ validate_translation(text, resp.translation)
               /\ result.translation = postprocess_translation(resp.translation))
    /\ [][CallStep /\ ~resp'.success => FailedAttemptStep]_vars
    /\ [][(/\ CallStep
           /\ resp'.success
           /\ resp'.translation # NoText
           /\ ~validate_translation(text, resp'.translation)) => FailedAttemptStep]_vars

\* an invalid response (no Arabic in it) was the last attempt's answer, and the
\* call returned a failure
C3_Witness ==
    /\ Returned
    /\ resp.success
    /\ resp.translation # NoText
    /\ ~has_arabic_chars(resp.translation)
    /\ result = Exhausted

\* C4: the fallback provider is called (and acquired for) only when fallback is
\* enabled and the primary has made all max_retries attempts of this call, none of
\* them valid; after the first fallback event no primary event follows.
C4_PrimaryThenFallback ==
    \A j \in 1..Len(log) :
        log[j].api # primary_api
        => /\ enable_fallback
           /\ log[j].api = fallback_api
           /\ Cardinality({i \in 1..(j - 1) : log[i].e = "call"
                              /\ log[i].api = primary_api /\ log[i].r = "failed"})
                = max_retries
           /\ \A i \in j..Len(log) : log[i].api = fallback_api

\* in a second cell, after a first one that succeeded, the fallback is called
C4_Witness ==
    /\ cellsDone = 1
    /\ result.error = None
    /\ max_retries = MAX_RETRIES
    /\ CallsTo(fallback_api) > 0

\* C8: each provider has its own limiter: the window of a limiter holds the
\* requests made to one provider only, so a call to the fallback provider does
\* not consume the primary provider's window.
C8_LimiterPerProvider ==
    Cardinality({tsFor[i] : i \in 1..Len(tsFor)}) <= 1

----------------------------------------------------------------------------
(* Properties of the RateLimiter, under SpecLimiter                        *)

\* the recorded timestamps inside the trailing window (T - 60, T]
InWindow(T) == {i \in 1..Len(admitted) : T - WINDOW < admitted[i] /\ admitted[i] <= T}

\* every trailing 60-second window holds at most rpm admitted requests (a window
\* holding the most ends at an admitted timestamp)
WindowBound == \A k \in 1..Len(admitted) : Cardinality(InWindow(admitted[k])) <= rpm

\* C5: for any sequence of acquire() calls, the number of admitted requests inside
\* any trailing 60-second window never exceeds rpm.
C5_WindowNeverExceedsRpm == WindowBound

Sleepers == {t \in Threads : tpc[t] = "acq_sleep"}

\* C6: a call that blocks sleeps 60 - elapsed seconds, elapsed being the time from
\* the oldest request in the window to the call; that is more than 0 and at most
\* 60; none of the first rpm calls blocks, and the (rpm+1)-th is admitted no
\* sooner than 60 seconds after the first.
C6_BlocksForRestOfWindow ==
    /\ \A t \in Sleepers :
          LET sleep_time == lastOp.val
              called == twake[t] - sleep_time
          IN  /\ lastOp.op = "acquire" /\ lastOp.by = t
              /\ called >= Head(timestamps)
              /\ sleep_time = WINDOW - (called - Head(timestamps))
              /\ sleep_time > 0
              /\ sleep_time <= WINDOW
              /\ Len(admitted) >= rpm
    /\ Len(admitted) > rpm => admitted[rpm + 1] - admitted[1] >= WINDOW

\* rpm calls were admitted 20 s apart or at once, and the next call, made 20 s
\* after the first, sleeps the 40 s that are left
C6_Witness ==
    /\ rpm = MaxRpm
    /\ Len(admitted) = rpm
    /\ Sleepers # {}
    /\ lastOp.val = WINDOW - TimeStep
    /\ now = admitted[1] + TimeStep

IsSuffix(q2, q) ==
    Len(q2) <= Len(q) /\ q2 = SubSeq(q, Len(q) - Len(q2) + 1, Len(q))

\* every recorded request is in the deque once, in order, unless it was evicted
\* from the head; no entry of the last 60 seconds is missing
NoneLostOrDuplicated ==
    /\ IsSuffix(timestamps, admitted)
    /\ \A i \in 1..(Len(admitted) - Len(timestamps)) : now - admitted[i] > WINDOW

\* C7: whatever the interleaving of acquire() calls by several threads on one
\* instance, every admitted request records exactly one timestamp and the bound of
\* rpm admitted requests per trailing 60-second window holds.
C7_SafeForConcurrentUse ==
    Cardinality({tsFor[i] : i \in 1..Len(tsFor)}) > 1
    => NoneLostOrDuplicated /\ WindowBound

\* the thread whose get_wait_time() ran its body in this step
GetWaitStep == \E t \in Threads : tpc[t] = "gwt_lock" /\ tpc'[t] = "idle"

\* C9 as claimed: the timestamp queue is the same before and after
\* get_wait_time().
C9_GetWaitTimeLeavesQueue == [][GetWaitStep => timestamps' = timestamps]_vars

\* C9 as amended: get_wait_time() records nothing and removes exactly the
\* timestamps older than 60 seconds from the head of the queue: what is left is
\* the queue's entries of the last 60 seconds, unchanged and in order.
C9_GetWaitTimeOnlyEvictsExpired ==
    [][GetWaitStep
        => /\ IsSuffix(timestamps', timestamps)
           /\ \A i \in 1..(Len(timestamps) - Len(timestamps')) :
                 now - timestamps[i] > WINDOW
           /\ \A i \in 1..Len(timestamps') : now - timestamps'[i] <= WINDOW
           /\ admitted' = admitted]_vars

\* get_wait_time() evicted an entry and left another one
C9_Witness ==
    /\ lastOp.op = "get_wait_time"
    /\ lastOp.evicted > 0
    /\ timestamps # <<>>

\* C10: a thread that has called get_wait_time() is never kept waiting: the lock
\* it needs is free.
C10_GetWaitTimeNeverBlocks ==
    \A t \in Threads : tpc[t] = "gwt_lock" => lock = NoThread

\* C11: the timestamp queue is bounded: once an acquire() has returned (its
\* timestamp is the queue's last entry) the queue holds only timestamps of the 60
\* seconds before that return, and it never holds more than rpm entries.
C11_QueueBounded ==
    /\ Len(timestamps) <= rpm
    /\ \A i \in 1..Len(timestamps) :
          timestamps[Len(timestamps)] - timestamps[i] <= WINDOW

----------------------------------------------------------------------------
(* translate_dataset (core/pipeline.py): runs over one dataset and one     *)
(* checkpoint directory.  Every run is a new TranslationPipeline calling   *)
(* translate_dataset once; translate_with_retry is taken by what it        *)
(* returns.  A KeyboardInterrupt can end the run between any two steps.    *)

Running == {"load", "cell", "write_ar", "write_api", "save", "saving", "finalize"}
CurCol == columns_to_translate[colIdx]
NumRows == Len(df.rows)
\* lines 230, 236: text = str(df.iloc[idx][col])
CellText == df.rows[idx + 1][Col(CurCol)]
GoTo(pos) == dpc' = pos.dpc /\ idx' = pos.idx /\ colIdx' = pos.colIdx

\* __init__ and lines 208-225: a run starts
NewRun(cols, preserve, resume, name) ==
    /\ dpc \notin Running
    /\ runs < MaxRuns
    /\ runs' = runs + 1
    /\ saves' = <<>>
    /\ columns_to_translate' = cols
    /\ preserve_all_columns' = preserve
    /\ resume_from_checkpoint' = resume
    /\ checkpoint_name' = name
    /\ stats' = [NewStats EXCEPT !.start_time = now, !.total = NumRows]
    /\ result_df' = InitialOutput(df, cols, preserve)
    /\ IF resume THEN dpc' = "load" /\ idx' = 0 /\ colIdx' = 1
                 ELSE GoTo(LoopHead(0, NumRows))
    /\ cur' = NoResult
    /\ calls' = <<>>
    /\ loaded' = NotLoaded
    /\ UNCHANGED <<validation, limVars, engVars, thrVars, df, checkpoint_dir, troubled>>

\* line 226: start_idx = self._load_checkpoint(result_df, checkpoint_name)
LoadCheckpoint ==
    /\ dpc = "load"
    /\ LET l == load_checkpoint(result_df, checkpoint_dir, checkpoint_name)
       IN  /\ loaded' = [raised |-> l.raised, idx |-> l.idx, file |-> l.file,
                         content |-> l.content, expected |-> result_df.columns]
           /\ result_df' = l.frame
           /\ IF l.raised THEN dpc' = "raised" /\ UNCHANGED <<idx, colIdx>>
                          ELSE GoTo(LoopHead(l.idx, NumRows))
    /\ UNCHANGED <<validation, limVars, engVars, thrVars, df, columns_to_translate,
                   preserve_all_columns, resume_from_checkpoint, checkpoint_name, stats,
                   checkpoint_dir, cur, runs, calls, saves, troubled>>

\* lines 230-240 and 249-255: the cell's text goes to translate_with_retry, which
\* returns res; a failure is counted and logged
ProcessCell(res) ==
    /\ dpc = "cell"
    /\ cur' = res
    /\ calls' = Append(calls, <<idx, colIdx>>)
    /\ IF Truthy(res.translation)
       THEN /\ dpc' = "write_ar"
            /\ UNCHANGED <<idx, colIdx, stats>>
       ELSE /\ stats' = FailedCell(stats, idx, CurCol, res.error)
            /\ GoTo(AfterCell(idx, colIdx, Len(columns_to_translate), NumRows, FALSE))
    /\ UNCHANGED <<validation, limVars, engVars, thrVars, df, columns_to_translate,
                   preserve_all_columns, resume_from_checkpoint, checkpoint_name,
                   result_df, checkpoint_dir, runs, saves, loaded>>

\* a cell is processed; at most MaxFailed cells, over all runs, are not answered
\* by the primary provider
TranslateCell(res) ==
    /\ res.api # primary_api => troubled < MaxFailed
    /\ troubled' = IF res.api # primary_api THEN troubled + 1 ELSE troubled
    /\ ProcessCell(res)

\* a cell is processed, whatever the providers did before
TranslateAnyCell(res) ==
    /\ ProcessCell(res)
    /\ UNCHANGED troubled

\* line 241: result_df.at[idx, f"{col}_ar"] = translation
WriteTranslation ==
    /\ dpc = "write_ar"
    /\ result_df' = AtSet(result_df, idx, ArCol(CurCol), cur.translation)
    /\ dpc' = "write_api"
    /\ UNCHANGED <<validation, limVars, engVars, thrVars, df, columns_to_translate,
                   preserve_all_columns, resume_from_checkpoint, checkpoint_name, stats,
                   checkpoint_dir, idx, colIdx, cur, runs, calls, saves, loaded, troubled>>

\* lines 242-248: result_df.at[idx, f"{col}_api"] = api_used, and the counters
WriteProvider ==
    /\ dpc = "write_api"
    /\ result_df' = AtSet(result_df, idx, ApiCol(CurCol), Tag(cur.api))
    /\ stats' = Succeeded(stats, cur.api)
    /\ GoTo(AfterCell(idx, colIdx, Len(columns_to_translate), NumRows, TRUE))
    /\ UNCHANGED <<validation, limVars, engVars, thrVars, df, columns_to_translate,
                   preserve_all_columns, resume_from_checkpoint, checkpoint_name,
                   checkpoint_dir, cur, runs, calls, saves, loaded, troubled>>

\* lines 260, 269-274: to_csv opens checkpoint_{idx + 1}.csv for writing, which
\* creates the file or empties the one that is there
SaveOpen ==
    /\ dpc = "save"
    /\ checkpoint_dir' = WriteFile(checkpoint_dir, FileName(idx + 1), EmptyFile)
    /\ dpc' = "saving"
    /\ UNCHANGED <<validation, limVars, engVars, thrVars, df, columns_to_translate,
                   preserve_all_columns, resume_from_checkpoint, checkpoint_name,
                   result_df, stats, idx, colIdx, cur, runs, calls, saves, loaded,
                   troubled>>

\* lines 273-274: df.iloc[:current_idx] is written and the file closed; the loop
\* goes on with the next row
SaveWrite ==
    /\ dpc = "saving"
    /\ LET file == ToCsv(ILoc(result_df, idx + 1))
       IN  /\ checkpoint_dir' = WriteFile(checkpoint_dir, FileName(idx + 1), file)
           /\ saves' = Append(saves, [row_count |-> idx + 1, file |-> file])
    /\ GoTo(LoopHead(idx + 1, NumRows))
    /\ UNCHANGED <<validation, limVars, engVars, thrVars, df, columns_to_translate,
                   preserve_all_columns, resume_from_checkpoint, checkpoint_name,
                   result_df, stats, cur, runs, calls, loaded, troubled>>

\* lines 262-265: the end time is recorded and result_df returned
Finalize ==
    /\ dpc = "finalize"
    /\ stats' = [stats EXCEPT !.end_time = now]
    /\ dpc' = "returned"
    /\ UNCHANGED <<validation, limVars, engVars, thrVars, df, columns_to_translate,
                   preserve_all_columns, resume_from_checkpoint, checkpoint_name,
                   result_df, checkpoint_dir, idx, colIdx, cur, runs, calls, saves,
                   loaded, troubled>>

\* KeyboardInterrupt: the run is abandoned where it stands (translate.py:137-139)
Interrupt ==
    /\ dpc \in Running
    /\ dpc' = "interrupted"
    /\ UNCHANGED <<validation, limVars, engVars, thrVars, df, columns_to_translate,
                   preserve_all_columns, resume_from_checkpoint, checkpoint_name,
                   result_df, stats, checkpoint_dir, idx, colIdx, cur, runs, calls,
                   saves, loaded, troubled>>

\* the checkpoint names a caller can pass
CheckpointNames == {FileName(CHECKPOINT_INTERVAL * i) : i \in 1..(MaxRows \div CHECKPOINT_INTERVAL)}

InitDataset ==
    /\ rpm = 0
    /\ timestamps = <<>>
    /\ now = 0
    /\ tsFor = <<>>
    /\ admitted = <<>>
    /\ primary_api = "nvidia"
    /\ enable_fallback \in BOOLEAN
    /\ normalize_terms = TRUE
    /\ EngineIdle
    /\ ThreadsIdle
    /\ df \in {InputFrame(n) : n \in 0..MaxRows}
    /\ DatasetIdle
    /\ ValidatorIdle

NextDataset ==
    \/ \E cols \in ColumnChoices, preserve \in BOOLEAN :
          \/ NewRun(cols, preserve, FALSE, NoName)
          \/ \E name \in {NoName} \cup CheckpointNames : NewRun(cols, preserve, TRUE, name)
    \/ LoadCheckpoint
    \/ /\ dpc = "cell"
       /\ \E res \in Returns(CellText, primary_api, enable_fallback) : TranslateCell(res)
    \/ WriteTranslation
    \/ WriteProvider
    \/ SaveOpen
    \/ SaveWrite
    \/ Finalize
    \/ Interrupt

SpecDataset == InitDataset /\ [][NextDataset]_vars

(* _load_checkpoint on the directory earlier runs have left: one dataset   *)
(* of MaxCheckpoints * CHECKPOINT_INTERVAL rows, one column, providers     *)
(* that always answer, runs that are interrupted or not and resumed.       *)

InitResume ==
    /\ rpm = 0
    /\ timestamps = <<>>
    /\ now = 0
    /\ tsFor = <<>>
    /\ admitted = <<>>
    /\ primary_api = "nvidia"
    /\ enable_fallback = FALSE
    /\ normalize_terms = TRUE
    /\ EngineIdle
    /\ ThreadsIdle
    /\ df = InputFrame(MaxCheckpoints * CHECKPOINT_INTERVAL)
    /\ DatasetIdle
    /\ ValidatorIdle

NextResume ==
    \/ \E resume \in BOOLEAN : NewRun(<<"question">>, TRUE, resume, NoName)
    \/ LoadCheckpoint
    \/ /\ dpc = "cell"
       /\ \E res \in Returns(CellText, primary_api, enable_fallback) \ {Exhausted} :
             TranslateCell(res)
    \/ WriteTranslation
    \/ WriteProvider
    \/ SaveOpen
    \/ SaveWrite
    \/ Finalize
    \/ Interrupt

SpecResume == InitResume /\ [][NextResume]_vars

(* The statistics of a run: a dataset of StatsRows rows, any cell failing   *)
(* or answered by a provider.  The runs with the fallback provider         *)
(* translate one column, the runs without it both columns.                 *)

StatsColumns == IF enable_fallback THEN <<"question">> ELSE InputColumns

InitStats ==
    /\ rpm = 0
    /\ timestamps = <<>>
    /\ now = 0
    /\ tsFor = <<>>
    /\ admitted = <<>>
    /\ primary_api \in {"nvidia", "fanar"}
    /\ enable_fallback \in BOOLEAN
    /\ normalize_terms = TRUE
    /\ EngineIdle
    /\ ThreadsIdle
    /\ df = InputFrame(StatsRows)
    /\ DatasetIdle
    /\ ValidatorIdle

NextStats ==
    \/ \E preserve \in BOOLEAN : NewRun(StatsColumns, preserve, FALSE, NoName)
    \/ /\ dpc = "cell"
       /\ \E res \in Returns(CellText, primary_api, enable_fallback) : TranslateAnyCell(res)
    \/ WriteTranslation
    \/ WriteProvider
    \/ SaveOpen
    \/ SaveWrite
    \/ Finalize
    \/ Interrupt

SpecStats == InitStats /\ [][NextStats]_vars

----------------------------------------------------------------------------
(* validate_translation as a function of its arguments: every translation  *)
(* of at most MaxLen characters, against originals of every length up to   *)
(* MaxOriginal and against itself (a provider echoing the text).           *)

ValidatorChars == {"lat", "sp", "ar", "rep", "mojA", "mojB"}
Translations == UNION {[1..n -> ValidatorChars] : n \in 0..MaxLen}
Originals == {[i \in 1..n |-> "lat"] : n \in 0..MaxOriginal}

InitValidator ==
    /\ rpm = 0
    /\ timestamps = <<>>
    /\ now = 0
    /\ tsFor = <<>>
    /\ admitted = <<>>
    /\ primary_api = "nvidia"
    /\ enable_fallback = FALSE
    /\ normalize_terms = TRUE
    /\ EngineIdle
    /\ ThreadsIdle
    /\ df = EmptyFrame
    /\ DatasetIdle
    /\ \E t \in Translations : \E o \in Originals \cup {t} : validation = Called(o, t)

\* validate_translation, lines 84-108
Validate ==
    /\ ~validation.returned
    /\ validation' =
          [validation EXCEPT
             !.returned = TRUE,
             !.checks = Checks(validation.original, validation.translated),
             !.is_valid = validate_translation(validation.original, validation.translated)]
    /\ UNCHANGED <<limVars, engVars, thrVars, dsVars>>

\* pipeline.py 166-169: a valid translation is post-processed and returned
PostProcess ==
    /\ validation.returned
    /\ validation.is_valid
    /\ validation.final = NoText
    /\ validation' =
          [validation EXCEPT !.final = postprocess_translation(validation.translated)]
    /\ UNCHANGED <<limVars, engVars, thrVars, dsVars>>

\* pipeline.py 240-250: translate_dataset counts the returned translation as a
\* success or as a failure
Record ==
    /\ validation.final # NoText
    /\ validation.counted = "none"
    /\ validation' =
          [validation EXCEPT
             !.counted = IF Truthy(validation.final) THEN "successful" ELSE "failed"]
    /\ UNCHANGED <<limVars, engVars, thrVars, dsVars>>

NextValidator ==
    \/ Validate
    \/ PostProcess
    \/ Record

SpecValidator == InitValidator /\ [][NextValidator]_vars

----------------------------------------------------------------------------
(* Claims about translate_dataset and the checkpoints                      *)

\* the run has ended by "return result_df"
Finalized == dpc = "returned"

\* the cell of the row labelled label, NaN when the frame has no such row
CellAt(f, label, c) ==
    IF label \in Labels(f) THEN f.rows[PosOf(f, label)][c] ELSE NaN

\* the cells this run has logged as failed are null in the output
FailedCellsNull ==
    \A j \in 1..Len(stats.failed_rows) :
        LET fr == stats.failed_rows[j]
        IN  IsNull(CellAt(result_df, fr.row_idx, ArCol(fr.column)))

\* C12: the dataset translate_dataset returns has exactly one row per input row,
\* whatever preserve_all_columns is and whichever cells failed, and every failed
\* cell is null in its translated column.
C12_OneRowPerInputRow ==
    Finalized => result_df.index = df.index /\ FailedCellsNull

\* the cells of a run that starts at row start, in processing order: rows
\* start..n-1, each with its columns 1..ncols
CellsFrom(start, n, ncols) ==
    [j \in 1..(Max(n - start, 0) * ncols) |->
        <<start + ((j - 1) \div ncols), ((j - 1) % ncols) + 1>>]

RunCells == CellsFrom(loaded.idx, NumRows, Len(columns_to_translate))

\* a step of the run itself
RunStep ==
    \/ LoadCheckpoint
    \/ /\ dpc = "cell"
       /\ \E res \in Returns(CellText, primary_api, enable_fallback) : TranslateCell(res)
    \/ WriteTranslation
    \/ WriteProvider
    \/ SaveOpen
    \/ SaveWrite
    \/ Finalize

\* C13: a failed cell never aborts the row or the run.  Whatever failed so far,
\* the cells handed to translate_with_retry are the run's cells in order with none
\* left out, the run can always take its next step, an exception ends it only
\* while the checkpoint is loaded, and when it returns every cell from the start
\* row on has been processed, the failures are logged and the end time recorded.
C13_FailedCellNeverAborts ==
    /\ dpc \in Running \cup {"returned", "interrupted"}
          => /\ Len(calls) <= Len(RunCells)
             /\ calls = SubSeq(RunCells, 1, Len(calls))
    /\ dpc \in (Running \ {"load"}) => ENABLED RunStep
    /\ dpc = "raised" => calls = <<>> /\ stats.failed = 0
    /\ Finalized
          => /\ calls = RunCells
             /\ stats.end_time # NoTime
             /\ stats.failed = Len(stats.failed_rows)
             /\ stats.successful + stats.failed = Len(RunCells)

\* a run of two columns returned after the first cell of a row that is not the
\* last had failed: every other cell was translated
C13_Witness ==
    /\ Finalized
    /\ Len(columns_to_translate) = 2
    /\ stats.failed = 1
    /\ stats.failed_rows[1].column = columns_to_translate[1]
    /\ stats.failed_rows[1].row_idx < NumRows - 1
    /\ stats.successful = Len(RunCells) - 1
    /\ stats.successful > 2

\* this run resumed from a checkpoint file that a run with the same output
\* columns had written completely
Resumed ==
    /\ dpc \in (Running \ {"load"}) \cup {"returned", "interrupted"}
    /\ loaded.file # NoName
    /\ loaded.content.columns = loaded.expected

\* C14: checkpoint round trip.  In a run resumed from the checkpoint of row count
\* k, processing continues at row k, and when the run returns, rows [0, k) of its
\* output are rows [0, k) of the snapshot, cell for cell.
C14_CheckpointRoundTrip ==
    Resumed
    => /\ loaded.idx = RowCount(loaded.file)
       /\ calls # <<>> => calls[1] = <<loaded.idx, 1>>
       /\ Finalized => ToCsv(ILoc(result_df, loaded.idx)) = loaded.content

\* _load_checkpoint runs in this step, without a checkpoint name, on a directory
\* that holds checkpoints
LoadsLatest ==
    /\ dpc = "load"
    /\ loaded' # loaded
    /\ checkpoint_name = NoName
    /\ Files(checkpoint_dir) # {}

\* C15: resuming without a named checkpoint selects, among all the checkpoints in
\* the directory, the one with the highest row count.
C15_LatestIsHighestRowCount ==
    [][LoadsLatest
        => \A n \in Files(checkpoint_dir) : RowCount(n) <= RowCount(loaded'.file)]_vars

\* C16: checkpoints are write-once.  A checkpoint file that has been written is
\* still there after every step, with the same content: no later save, of the
\* same run or of a later run on the same directory, overwrites or changes it.
C16_CheckpointsWriteOnce ==
    [][\A n \in Files(checkpoint_dir) :
          checkpoint_dir[n] # EmptyFile
          => n \in Files(checkpoint_dir') /\ checkpoint_dir'[n] = checkpoint_dir[n]]_vars

\* this run has read a checkpoint whose columns are not the columns of its output
LoadedMismatch ==
    /\ loaded.file # NoName
    /\ loaded.content.columns # loaded.expected

\* C17: loading a checkpoint whose columns do not match the run's output columns
\* is an error that stops the run before any translation: the run is never found
\* past the load with such a checkpoint read, and none of its cells were
\* translated.
C17_ColumnMismatchStopsRun ==
    LoadedMismatch => dpc = "raised" /\ calls = <<>>

\* the file can be read back: it has its header (read_csv raises on a file that
\* has none)
ValidCheckpoint(file) == file.columns # <<>>

\* every line of the file has a field for every column
CompleteRows(file) ==
    \A p \in 1..Len(file.rows) :
        DOMAIN file.rows[p] = {file.columns[j] : j \in 1..Len(file.columns)}

\* in every line, a translation and its provider tag are both there or both empty
PairsWhole(file) ==
    \A p \in 1..Len(file.rows) : \A c \in DOMAIN file.rows[p] :
        (Len(c) = 2 /\ c[2] = "_ar")
        => (file.rows[p][c] = EmptyField <=> file.rows[p][ApiCol(c[1])] = EmptyField)

\* C18: an interrupt at any point of a run leaves every checkpoint in storage a
\* consistent valid prefix: a readable file of complete rows, in each of which
\* every requested cell has both its translation and its provider tag, or
\* neither.
C18_InterruptLeavesValidCheckpoints ==
    dpc = "interrupted"
    => \A n \in Files(checkpoint_dir) :
          /\ ValidCheckpoint(checkpoint_dir[n])
          /\ CompleteRows(checkpoint_dir[n])
          /\ PairsWhole(checkpoint_dir[n])

\* the rows of f whose label is below k, in the frame's order
RowsBelow(f, k) ==
    LET ps == {p \in 1..Len(f.index) : f.index[p] < k}
        Nth(j) == CHOOSE p \in ps : Cardinality({q \in ps : q < p}) = j - 1
    IN  Frame([j \in 1..Cardinality(ps) |-> f.index[Nth(j)]], f.columns,
              [j \in 1..Cardinality(ps) |-> f.rows[Nth(j)]])

\* this step resolves the last requested cell of row idx
RowCompletes == dpc \in {"cell", "write_api"} /\ (dpc' = "save" \/ idx' = idx + 1)

\* every requested cell of the rows up to idx has been handed to
\* translate_with_retry and its result recorded
RowsResolved == Len(calls) = (idx + 1 - loaded.idx) * Len(columns_to_translate)

C20_CheckpointIsPrefixOfOutput ==
    Finalized
    => \A j \in 1..Len(saves) :
          saves[j].file = ToCsv(ILoc(result_df, saves[j].row_count))

\* the cells this run has resolved: translated and written, or counted as failed
ResolvedCells == stats.successful + stats.failed

\* cell a comes before cell b in the order of the loops: an earlier row, or the
\* same row and an earlier column
CellBefore(a, b) == a[1] < b[1] \/ (a[1] = b[1] /\ a[2] < b[2])

\* C21: rows are processed one after the other in index order from the resume
\* index on, and the columns of a row in the order given.  The cells handed to
\* translate_with_retry so far are in strictly increasing order (so none is
\* handed over twice), the first is the first column of the row at the resume
\* index, each next one is the next column of the same row or the first column of
\* the next row, a cell is handed over only when every cell before it is
\* resolved, and a run that returns has handed over every cell from the resume
\* index on.
C21_RowsInIndexOrder ==
    /\ [](dpc \in Running \cup {"returned", "interrupted"}
            => /\ \A j \in 1..Len(calls) :
                     /\ calls[j][1] \in loaded.idx..(NumRows - 1)
                     /\ calls[j][2] \in 1..Len(columns_to_translate)
                     /\ j = 1 => calls[j] = <<loaded.idx, 1>>
                     /\ j > 1 => /\ CellBefore(calls[j - 1], calls[j])
                                /\ IF calls[j - 1][2] < Len(columns_to_translate)
                                   THEN calls[j] = <<calls[j - 1][1], calls[j - 1][2] + 1>>
                                   ELSE calls[j] = <<calls[j - 1][1] + 1, 1>>
               /\ Len(calls) - ResolvedCells \in {0, 1}
               /\ Finalized
                     => {calls[j] : j \in 1..Len(calls)}
                           = (loaded.idx..(NumRows - 1)) \X (1..Len(columns_to_translate)))
    /\ [][Len(calls') > Len(calls)
            => /\ dpc = "cell"
               /\ calls' = Append(calls, <<idx, colIdx>>)
               /\ ResolvedCells = Len(calls)]_vars

\* a run resumed at row CHECKPOINT_INTERVAL returned after handing over both
\* columns of every remaining row, one of the cells having failed
C21_Witness ==
    /\ Finalized
    /\ loaded.idx = CHECKPOINT_INTERVAL
    /\ Len(columns_to_translate) = 2
    /\ Len(calls) = 2 * (NumRows - CHECKPOINT_INTERVAL)
    /\ Len(calls) > 2
    /\ stats.failed = 1

\* the cell of row i (by label) and column c of the output is what the
\* checkpoint read by this run holds for row i: the field of its line i + 1
KeepsCheckpointed(i, c) ==
    /\ i + 1 <= Len(loaded.content.rows)
    /\ i \in Labels(result_df)
    /\ Field(CellAt(result_df, i, c)) = loaded.content.rows[i + 1][c]

\* C22: a run resumed from a checkpoint of row count k hands no cell of a row
\* below k to translate_with_retry; at every point of the run the translated and
\* provider cells of every row below k hold what the checkpoint holds for them (a
\* cell that is empty there is null); and a run that returns has handed over
\* every cell of every row from k on.
C22_ResumeSkipsCheckpointedRows ==
    Resumed
    => /\ \A j \in 1..Len(calls) : calls[j][1] >= loaded.idx
       /\ \A i \in 0..(loaded.idx - 1) : \A j \in 1..Len(columns_to_translate) :
             /\ KeepsCheckpointed(i, ArCol(columns_to_translate[j]))
             /\ KeepsCheckpointed(i, ApiCol(columns_to_translate[j]))
       /\ Finalized
             => \A i \in loaded.idx..(NumRows - 1) :
                   \A j \in 1..Len(columns_to_translate) :
                       \E n \in 1..Len(calls) : calls[n] = <<i, j>>

\* _load_checkpoint runs in this step on a directory that holds no checkpoint
LoadsNothing ==
    /\ dpc = "load"
    /\ loaded' # loaded
    /\ Files(checkpoint_dir) = {}

\* C23: resuming when no checkpoint exists is not an error.  Whether a
\* checkpoint name is given or not, _load_checkpoint returns 0 without raising
\* and leaves the output dataset and the directory as they are, and the loop
\* starts at row 0 (or is over at once on an empty dataset).
C23_NoCheckpointStartsAtRowZero ==
    [][LoadsNothing
        => /\ ~loaded'.raised
           /\ loaded'.idx = 0
           /\ loaded'.file = NoName
           /\ result_df' = result_df
           /\ result_df' = InitialOutput(df, columns_to_translate, preserve_all_columns)
           /\ checkpoint_dir' = checkpoint_dir
           /\ idx' = 0 /\ colIdx' = 1
           /\ dpc' = IF NumRows > 0 THEN "cell" ELSE "finalize"]_vars

\* a run asked to resume from a named checkpoint found the directory empty and
\* has handed the first cell of row 0 to translate_with_retry
C23_Witness ==
    /\ resume_from_checkpoint
    /\ checkpoint_name # NoName
    /\ loaded.expected # <<>>
    /\ loaded.file = NoName
    /\ Files(checkpoint_dir) = {}
    /\ calls = << <<0, 1>> >>

\* C24: on return from translate_with_retry exactly one of (translation, error)
\* is non-null.  What is returned is either a success, a non-empty translation
\* tagged with the provider that gave it and error None, or a failure,
\* translation None with provider "failed" and an error message.
C24_TranslationXorError ==
    Returned
    => /\ (result.translation = NoText) # (result.error = None)
       /\ result.error = None
             => /\ Truthy(result.translation)
                /\ result.api \in {apis[j] : j \in 1..Len(apis)}
       /\ result.translation = NoText
             => /\ result.api = "failed"
                /\ result.error = "All API attempts exhausted"

\* a second call returned the failure after a first one that had returned, the
\* fallback provider having failed max_retries times too
C24_Witness ==
    /\ Returned
    /\ cellsDone = 2
    /\ enable_fallback
    /\ result.translation = NoText
    /\ result.error # None
    /\ CallsTo(fallback_api) = max_retries

----------------------------------------------------------------------------
(* The statistics of a run, under SpecStats                                *)

\* the column of the j-th cell handed to translate_with_retry, and the provider
\* cell the output holds for it
CallCol(j) == columns_to_translate[calls[j][2]]
ProviderOf(j) == CellAt(result_df, calls[j][1], ApiCol(CallCol(j)))

\* the cells of this run resolved as translated: the provider tag is written
WrittenCalls == {j \in 1..Len(calls) : ~IsNull(ProviderOf(j))}

\* the cells of this run resolved as failed: nothing is written for them, and
\* they are not the cell whose translation is being written
FailedCalls ==
    {j \in 1..Len(calls) :
        IsNull(ProviderOf(j)) /\ (j < Len(calls) \/ ~Truthy(cur.translation))}

\* the n-th member of a set of positions, in increasing order
NthOf(S, n) == CHOOSE j \in S : Cardinality({i \in S : i < j}) = n - 1

\* C25: the statistics stay consistent with the cells processed.  In every state
\* of a run, successful is the number of cells resolved as translated and failed
\* the number resolved as failed, so their sum is the number of cells resolved so
\* far; successful is the sum of the two per-provider counters, each the number
\* of cells tagged with its provider; failed is the length of failed_rows, and
\* the entries of failed_rows are the failed cells in processing order, each with
\* its row index, its column and the error returned.
C25_StatsConsistent ==
    dpc \in Running \cup {"returned", "interrupted"}
    => /\ stats.successful = Cardinality(WrittenCalls)
       /\ stats.failed = Cardinality(FailedCalls)
       /\ stats.successful + stats.failed = Cardinality(WrittenCalls \cup FailedCalls)
       /\ Len(calls) - (stats.successful + stats.failed) \in {0, 1}
       /\ stats.successful = stats.nvidia_used + stats.fanar_used
       /\ stats.nvidia_used = Cardinality({j \in WrittenCalls : ProviderOf(j) = Tag("nvidia")})
       /\ stats.fanar_used = Cardinality({j \in WrittenCalls : ProviderOf(j) = Tag("fanar")})
       /\ stats.failed = Len(stats.failed_rows)
       /\ \A n \in 1..Len(stats.failed_rows) :
             LET j == NthOf(FailedCalls, n)
             IN  stats.failed_rows[n] =
                    [row_idx |-> calls[j][1], column |-> CallCol(j),
                     error |-> Exhausted.error]
       /\ stats.total = NumRows

\* a run of two columns has returned: the second cell of row 0 and the first
\* cell of row 1 failed, the other two were translated
C25_Witness ==
    /\ Finalized
    /\ stats.successful = 2
    /\ stats.failed = 2
    /\ stats.failed_rows[1].row_idx = 0
    /\ stats.failed_rows[1].column = "answer"
    /\ stats.failed_rows[2].row_idx = 1
    /\ stats.failed_rows[2].column = "question"

----------------------------------------------------------------------------
(* The text handed to the providers, under Spec                            *)

IsVisible(c) == c \notin {"ctl", "sp", "nl"}
IsTerm(c) == c = "term"

\* the characters of a text that are neither whitespace nor removed as control
\* characters, in order
Visible(s) == SelectSeq(s, IsVisible)

\* no control character, no whitespace at the ends, no two blanks in a row, and
\* between two newlines no whitespace
Cleaned(s) ==
    /\ \A i \in 1..Len(s) : s[i] # "ctl"
    /\ s # <<>> => ~IsSpace(s[1]) /\ ~IsSpace(s[Len(s)])
    /\ \A i \in 1..(Len(s) - 1) : ~(s[i] = "sp" /\ s[i + 1] = "sp")
    /\ \A i, j \in 1..Len(s) :
          (i < j /\ s[i] = "nl" /\ s[j] = "nl" /\ \A k \in i..j : IsSpace(s[k]))
          => j = i + 1

\* C26 as claimed: the text handed to every provider call is the original with
\* the control characters stripped, the whitespace collapsed and every provider
\* term replaced by its generic wording.
C26_ProviderGetsNormalizedText ==
    [][CallStep
        => /\ Cleaned(sent')
           /\ Visible(sent') = normalize_provider_terms(Visible(text))
           /\ SelectSeq(sent', IsTerm) = <<>>]_vars

\* C26 as amended: the text handed to every provider call is the pre-processed
\* text, the same for every attempt and provider of the call: the original
\* without its control characters, its runs of blanks made one blank, its blank
\* lines made one, its ends stripped; the provider terms are replaced by their
\* generic wording when normalize_provider_terms is set and are handed on as
\* they are when it is not.
C26_ProviderGetsPreprocessedText ==
    [][CallStep
        => /\ Cleaned(sent')
           /\ sent # <<>> => sent' = sent
           /\ normalize_terms
                 => /\ Visible(sent') = normalize_provider_terms(Visible(text))
                    /\ SelectSeq(sent', IsTerm) = <<>>
           /\ ~normalize_terms => Visible(sent') = Visible(text)]_vars

\* with normalize_provider_terms set, a text with a provider term, blank lines
\* and a control character was translated from its pre-processed form, on the
\* second attempt
C26_Witness ==
    /\ Returned
    /\ normalize_terms
    /\ result.error = None
    /\ CallsTo(primary_api) = 2
    /\ text = <<"term", "sp", "nl", "sp", "sp", "nl", "nl", "lat", "ctl">>
    /\ sent = <<"generic", "sp", "nl", "nl", "lat">>

----------------------------------------------------------------------------
(* The provider adapters, under Spec                                       *)

\* C27: a provider adapter never raises: whatever went wrong in the exchange
\* with the provider (network error, timeout, malformed response, non-success
\* status, missing field), what the adapter hands back is a result with
\* success = false, no translation and an error message; a result with
\* success = true carries the translation text.
C27_AdapterFailuresAreResults ==
    /\ resp.success => resp.translation # NoText /\ resp.error = None
    /\ ~resp.success => resp.translation = NoText /\ resp.error # None
    /\ pc = "call" => \A res \in ResultsOf(CurApi) : ENABLED EngCall(res)

----------------------------------------------------------------------------
(* Timing, under Spec: the limiter of 0..MaxRpm requests per minute, the   *)
(* backoff sleeps and the clock advancing at any moment between two steps  *)

\* the provider calls of the current (or last) translate_with_retry, in order
CallEvents == SelectSeq(log, IsCall)

\* what translate_with_retry returns, given the outcomes of its provider calls
\* and the last provider answer: nothing of it is read from the clock
ResultOf(calls_made, answer) ==
    IF calls_made # <<>> /\ calls_made[Len(calls_made)].r = "valid"
    THEN [translation |-> postprocess_translation(answer.translation),
          api |-> calls_made[Len(calls_made)].api, error |-> None]
    ELSE Exhausted

\* C28: the timing of a run does not affect its logical outcome.  Whatever the
\* limiter made the run wait, however long it slept and whenever the clock
\* advanced, the provider calls of a translate_with_retry call are the same
\* sequence (attempts 0..max_retries-1 of the primary, then of the fallback, up
\* to the first valid answer), decided by the providers' answers alone, and what
\* it returns (translation, provider tag, success or failure) is a function of
\* those answers.
C28_TimingDoesNotChangeOutcome ==
    /\ \A j \in 1..Len(CallEvents) :
          /\ CallEvents[j].api = apis[((j - 1) \div max_retries) + 1]
          /\ CallEvents[j].n = (j - 1) % max_retries
          /\ j < Len(CallEvents) => CallEvents[j].r = "failed"
    /\ CallEvents # <<>>
          => CallEvents[Len(CallEvents)].r = Logged(Outcome(text, resp))
    /\ Returned
          => /\ result = ResultOf(CallEvents, resp)
             /\ result = Exhausted => Len(CallEvents) = max_retries * Len(apis)

\* a call returned a translation on its second attempt after the limiter of one
\* request per minute had made it wait for the first request to leave the
\* window
C28_Witness ==
    /\ Returned
    /\ rpm = 1
    /\ now >= WINDOW
    /\ cellsDone = 1
    /\ Len(CallEvents) = 2
    /\ result.error = None


----------------------------------------------------------------------------
(* The validator, under SpecValidator *)

\* the positions of a text holding something other than whitespace, an Arabic-script
\* character, an encoding artifact
Inked(t) == {i \in 1..Len(t) : t[i] \notin {"sp", "nl"}}
ArabicAt(t) == {i \in 1..Len(t) : t[i] \in {"ar", "alef", "alefH"}}
ArtifactAt(t) ==
    {i \in 1..Len(t) : \/ t[i] = "rep"
                       \/ i < Len(t) /\ t[i] = "mojA" /\ t[i + 1] = "mojB"}

\* the five checks, stated on the arguments alone
Expected(o, t) ==
    [not_empty |-> Inked(t) # {},
     has_arabic |-> ArabicAt(t) # {},
     arabic_ratio_ok |-> Inked(t) # {} /\ 2 * Cardinality(ArabicAt(t)) >= Cardinality(Inked(t)),
     reasonable_length |-> \/ o = <<>>
                           \/ 3 * Len(o) <= 10 * Len(t) /\ Len(t) <= 3 * Len(o),
     no_encoding_errors |-> ArtifactAt(t) = {}]

FailedChecks == {k \in DOMAIN validation.checks : ~validation.checks[k]}

\* C29: validate_translation returns is_valid = true exactly when the translation
\* is not empty, has Arabic characters, has an Arabic-character ratio of at least
\* 0.5, has a length ratio within [0.3, 3.0] (or the original is empty) and has no
\* encoding artifacts; any single failing check makes it invalid; the returned
\* pair is a function of the two arguments alone.
C29_ValidIffAllFiveChecksPass ==
    validation.returned
    => /\ validation.checks = Expected(validation.original, validation.translated)
       /\ validation.is_valid <=> FailedChecks = {}
       /\ \A k \in DOMAIN validation.checks : ~validation.checks[k] => ~validation.is_valid

\* a translation three times and a bit longer than its original, fine otherwise, is
\* rejected on the length check alone
C29_Witness ==
    /\ validation.returned
    /\ validation.original = <<"lat">>
    /\ validation.translated = <<"ar", "ar", "sp", "ar">>
    /\ FailedChecks = {"reasonable_length"}
    /\ ~validation.is_valid

\* C30: for every text t without an Arabic-script character,
\* validate_translation(t, t) is invalid, the has_arabic check failing: a text a
\* provider returns unchanged is rejected.
C30_EchoedTextIsInvalid ==
    /\ validation.returned
    /\ validation.original = validation.translated
    /\ ArabicAt(validation.translated) = {}
    => /\ ~validation.is_valid
       /\ ~validation.checks.has_arabic

\* an English text echoed: only the two Arabic checks fail
C30_Witness ==
    /\ validation.returned
    /\ validation.original = <<"lat", "lat", "sp", "lat">>
    /\ validation.translated = validation.original
    /\ FailedChecks = {"has_arabic", "arabic_ratio_ok"}
    /\ ~validation.is_valid

\* C31: for every non-empty original o and every translation X with
\* len(X) > 3.0 * len(o), validate_translation(o, X) is invalid, the length-ratio
\* check failing.
C31_TooLongIsInvalid ==
    /\ validation.returned
    /\ validation.original # <<>>
    /\ Len(validation.translated) > 3 * Len(validation.original)
    => /\ ~validation.is_valid
       /\ ~validation.checks.reasonable_length

\* an all-Arabic translation of four characters for an original of one
C31_Witness ==
    /\ validation.returned
    /\ validation.original = <<"lat">>
    /\ validation.translated = <<"ar", "ar", "ar", "ar">>
    /\ FailedChecks = {"reasonable_length"}
    /\ ~validation.is_valid

\* C32: for every original text t, validate_translation(t, "") is invalid, the
\* not_empty check failing: an empty translation is never accepted.
C32_EmptyTranslationIsInvalid ==
    /\ validation.returned
    /\ validation.translated = <<>>
    => /\ ~validation.is_valid
       /\ ~validation.checks.not_empty

\* the empty translation of a two-letter original
C32_Witness ==
    /\ validation.returned
    /\ validation.original = <<"lat", "lat">>
    /\ validation.translated = <<>>
    /\ "not_empty" \in FailedChecks
    /\ ~validation.is_valid

----------------------------------------------------------------------------
(* Backoff and rate limiting of the attempts, under Spec *)

\* the event following position j of the log of the current call, if any
HasNext(j) == j < Len(log)

\* C33: after a failed attempt a (0-based) on a provider, translate_with_retry
\* sleeps BACKOFF_MULTIPLIER^a seconds before the next attempt on that provider,
\* and does not sleep after that provider's last attempt; with fallback enabled
\* the exponent restarts at 0 for the fallback provider, whose first attempt
\* follows the primary's last one without a backoff.
C33_BackoffInLog ==
    \A j \in 1..Len(log) :
        /\ (log[j].e = "call" /\ log[j].r = "failed" /\ log[j].n < max_retries - 1)
           => /\ HasNext(j)
              /\ log[j + 1] = Event("sleep", log[j].api, BACKOFF_MULTIPLIER ^ log[j].n, "-")
              /\ \/ j + 1 >= Len(log)
                 \/ /\ log[j + 2].e \in {"acquire", "call"}
                    /\ log[j + 2].api = log[j].api
                    /\ log[j + 2].n = log[j].n + 1
        /\ (log[j].e = "call" /\ log[j].r = "failed" /\ log[j].n = max_retries - 1)
           => \/ ~HasNext(j)
              \/ /\ log[j + 1].e \in {"acquire", "call"}
                 /\ log[j].api = primary_api
                 /\ log[j + 1].api = fallback_api
                 /\ log[j + 1].n = 0
        /\ log[j].e = "sleep"
           => /\ j > 1
              /\ log[j - 1].e = "call" /\ log[j - 1].r = "failed"
              /\ log[j - 1].api = log[j].api

C33_BackoffInTime ==
    /\ (pc # "backoff" /\ pc' = "backoff")
       => /\ pc = "call"
          /\ attempt < max_retries - 1
          /\ wakeAt' = now + BACKOFF_MULTIPLIER ^ attempt
          /\ apiIdx' = apiIdx /\ attempt' = attempt
    /\ (pc = "backoff" /\ pc' # "backoff")
       => /\ now >= wakeAt
          /\ pc' = "attempt"
          /\ apiIdx' = apiIdx /\ attempt' = attempt + 1
    /\ (pc = "call" /\ pc' = "attempt")
       => /\ attempt = max_retries - 1
          /\ apiIdx' = apiIdx + 1 /\ attempt' = 0
          /\ now' = now

C33_BackoffBetweenAttempts == [](C33_BackoffInLog) /\ [][C33_BackoffInTime]_vars

\* both providers exhausted: sleeps of 1 and 2 seconds for the primary, then of
\* 1 and 2 seconds again for the fallback
C33_Witness ==
    /\ Returned
    /\ enable_fallback
    /\ max_retries = 3
    /\ result = Exhausted
    /\ LET sl == SelectSeq(log, LAMBDA e : e.e = "sleep")
       IN  /\ Len(sl) = 4
           /\ sl[1].n = 1 /\ sl[2].n = 2 /\ sl[3].n = 1 /\ sl[4].n = 2
           /\ sl[2].api = primary_api /\ sl[3].api = fallback_api

EventsOf(kind) == SelectSeq(log, LAMBDA ev : ev.e = kind)

\* C34: with a rate limiter configured, every provider call is preceded by
\* exactly one acquire() of the same attempt, so there are as many acquire()
\* calls as provider calls; without one, no provider call is delayed by the
\* limiter.
C34_AcquireInLog ==
    /\ rpm > 0
       => /\ \A j \in 1..Len(log) :
                /\ log[j].e = "call"
                   => /\ j > 1
                      /\ log[j - 1] = Event("acquire", log[j].api, log[j].n, "-")
                /\ log[j].e = "acquire"
                   => \/ ~HasNext(j) /\ pc = "call"
                      \/ /\ HasNext(j)
                         /\ log[j + 1].e = "call"
                         /\ log[j + 1].api = log[j].api
                         /\ log[j + 1].n = log[j].n
          /\ Len(EventsOf("acquire")) =
                Len(EventsOf("call")) + (IF pc = "call" THEN 1 ELSE 0)
    /\ rpm = 0
       => /\ EventsOf("acquire") = <<>>
          /\ timestamps = <<>>
          /\ pc \notin {"acquire", "acq_sleep"}

C34_NoLimiterNoDelay ==
    (rpm = 0 /\ pc = "attempt" /\ pc' # "attempt") => pc' = "call" /\ now' = now

C34_OneAcquirePerCall == [](C34_AcquireInLog) /\ [][C34_NoLimiterNoDelay]_vars

\* three attempts through a limiter of two requests per minute: three acquire()
\* calls, the third one having slept, and three provider calls
C34_Witness ==
    /\ Returned
    /\ rpm = 2
    /\ ~enable_fallback
    /\ result = Exhausted
    /\ Len(EventsOf("acquire")) = 3
    /\ Len(EventsOf("call")) = 3
    /\ now >= WINDOW

----------------------------------------------------------------------------
(* Resume and the preserved columns, under SpecDataset *)

\* C35: resuming from a checkpoint leaves the preserved original columns of the
\* output equal to the input's for every row, the rows at or after the resume
\* index included: loading the checkpoint changes no cell of those rows.
C35_ResumeKeepsOriginalColumns ==
    (Resumed /\ preserve_all_columns)
    => /\ Len(result_df.rows) = NumRows
       /\ \A p \in 1..NumRows : \A j \in 1..Len(InputColumns) :
             result_df.rows[p][Col(InputColumns[j])] = df.rows[p][Col(InputColumns[j])]

----------------------------------------------------------------------------
(* Exceptions inside an attempt, under Spec *)

\* the provider's result is a success whose translation is None:
\* validate_translation raises on it, inside the try block
ExceptionStep ==
    /\ pc = "call" /\ pc' # "call"
    /\ resp'.success /\ resp'.translation = NoText

\* C36: an exception raised inside an attempt is caught, counts as one failed
\* attempt followed by the normal backoff, and does not leave
\* translate_with_retry: the loops go on to the next attempt or the next
\* provider, or end with the result "All API attempts exhausted".
C36_ExceptionIsFailedAttempt ==
    [][ExceptionStep
        => /\ \E j \in 1..Len(log') :
                 /\ SubSeq(log', 1, j - 1) = log
                 /\ log'[j] = Event("call", CurApi, attempt, "failed")
                 /\ \A k \in (j + 1)..Len(log') : log'[k].e = "sleep"
           /\ IF attempt < max_retries - 1
              THEN /\ pc' = "backoff"
                   /\ wakeAt' = now + BACKOFF_MULTIPLIER ^ attempt
                   /\ apiIdx' = apiIdx /\ attempt' = attempt
                   /\ result' = result /\ cellsDone' = cellsDone
              ELSE IF apiIdx < Len(apis)
              THEN /\ pc' = "attempt"
                   /\ apiIdx' = apiIdx + 1 /\ attempt' = 0
                   /\ result' = result /\ cellsDone' = cellsDone
              ELSE /\ pc' = "idle"
                   /\ result' = Exhausted
                   /\ cellsDone' = cellsDone + 1]_vars

\* the second attempt on nvidia has raised on a null translation and the
\* backoff of 2 seconds is being slept
C36_Witness ==
    /\ pc = "backoff"
    /\ resp.success /\ resp.translation = NoText
    /\ CurApi = "nvidia"
    /\ attempt = 1
    /\ wakeAt = now + 2
    /\ log[Len(log)] = Event("sleep", "nvidia", 2, "-")

----------------------------------------------------------------------------
(* What is returned for a valid translation, under SpecValidator *)

\* C37: every translation translate_with_retry returns as a success is a
\* non-empty string, so translate_dataset counts no validated translation as a
\* failed cell.
C37_SuccessIsNonEmpty ==
    validation.final # NoText
    => /\ validation.is_valid
       /\ validation.final # <<>>
       /\ Inked(validation.final) # {}
       /\ validation.counted # "failed"

\* a valid translation that post-processing strips down to one character is
\* counted as a success
C37_Witness ==
    /\ validation.translated = <<"sp", "ar", "sp", "sp">>
    /\ validation.final = <<"ar">>
    /\ validation.counted = "successful"

\* C38: the text translate_with_retry returns satisfies the validator:
\* post-processing never turns a response that passed validate_translation into
\* a text that fails it against the same original.
C38_ReturnedTextIsValid ==
    validation.final # NoText
    => validate_translation(validation.original, validation.final)

----------------------------------------------------------------------------
(* The results of the provider adapters, under Spec *)

\* C39: every provider result is well-formed, for the NVIDIA and for the Fanar
\* adapter: success=true comes with a non-null, non-empty translation and a
\* null error; success=false with a null translation and a non-null error
\* message.
C39_ProviderResultWellFormed ==
    (\E j \in 1..Len(log) : log[j].e = "call")
    => IF resp.success
       THEN /\ resp.translation # NoText
            /\ resp.translation # <<>>
            /\ resp.error = None
       ELSE /\ resp.translation = NoText
            /\ resp.error # None

----------------------------------------------------------------------------
(* Termination of acquire(), under SpecLimiterFair *)

InAcquire(t) == tpc[t] \in {"acq_lock", "acq_sleep"}

\* the lock is held by the sleeper only, whose sleep is at most 60 seconds from
\* the moment it starts
C40_LockAndSleep ==
    /\ \A t \in Threads :
          /\ lock = t <=> tpc[t] = "acq_sleep"
          /\ tpc[t] = "acq_sleep" => twake[t] > 0
          /\ tpc[t] # "acq_sleep" => twake[t] = 0
    /\ Cardinality({t \in Threads : tpc[t] = "acq_sleep"}) <= 1

C40_SleepsOnce ==
    \A t \in Threads :
        /\ (tpc[t] # "acq_sleep" /\ tpc'[t] = "acq_sleep")
           => /\ tpc[t] = "acq_lock"
              /\ twake'[t] > now /\ twake'[t] <= now + WINDOW
        /\ (tpc[t] = "acq_sleep" /\ tpc'[t] # "acq_sleep")
           => /\ tpc'[t] = "idle"
              /\ now >= twake[t]
              /\ lock' = NoThread
              /\ Len(admitted') = Len(admitted) + 1
        /\ (tpc[t] = "acq_lock" /\ tpc'[t] = "idle")
           => /\ lock' = NoThread
              /\ Len(admitted') = Len(admitted) + 1

\* C40: every acquire() call terminates: it sleeps at most once, for at most 60
\* seconds, the lock is released when it returns, and of several threads
\* queued on one limiter each one eventually returns.
C40_AcquireTerminates ==
    /\ [](C40_LockAndSleep)
    /\ [][C40_SleepsOnce]_vars
    /\ \A t \in Threads : (InAcquire(t) ~> tpc[t] = "idle")

\* three calls on a limiter of one request per minute have returned, the last two
\* after a full sleep of 60 seconds each
C40_Witness ==
    /\ rpm = 1
    /\ \A t \in Threads : tpc[t] = "idle"
    /\ lock = NoThread
    /\ Len(admitted) = 3
    /\ admitted[2] = admitted[1] + WINDOW
    /\ admitted[3] = admitted[2] + WINDOW

====
